---------------------------- MODULE Spec2Model ----------------------------
(***************************************************************************)
(* DDR-Generator: the deterministic extract / validate / generate-verify   *)
(* pipeline.                                                               *)
(*                                                                         *)
(* Texts are sequences of one-character strings, so that the regular       *)
(* expressions, str.lower(), str.strip(), int() and slicing of the source  *)
(* are computed character by character.  Offsets into a text are the       *)
(* 0-based offsets of the Python source; text[a:b] is Slice(text, a, b).   *)
(***************************************************************************)
EXTENDS Integers, Sequences, FiniteSets, TLC

VARIABLES
    pc,                   \* which operation has run: "input", then the operation's name
    text,                 \* the raw document text handed to area_parser
    max_areas,            \* extract_impacted_areas_from_text: argument max_areas
    seg_result,           \* extract_impacted_areas_from_text: what the call produced
    parse_result,         \* parse_inspection_deterministically: what the call produced
    ddr_text,             \* _validate_entity_count: argument ddr_text
    expected_count,       \* _validate_entity_count: argument expected_count
    verify_result,        \* _validate_entity_count: what the call produced
    inspection_findings,  \* generate_ddr: argument inspection_findings
    thermal_findings,     \* generate_ddr: argument thermal_findings
    gen_result,           \* generate_ddr: what the call produced, with its locals
    inspection_data,      \* validate_all: the caller's inspection_data dict
    thermal_data,         \* validate_all: the caller's thermal_data dict
    val_result,           \* validate_all: what the call produced
    limiter,              \* the GeminiRateLimiter object: its fields
    clock,                \* time.time() and datetime.now().date()
    limiter_result,       \* wait_if_needed: what the last call produced
    trace                 \* the button handler: what it has done so far, in order

parserVars == <<text, max_areas, seg_result, parse_result>>
verifierVars == <<ddr_text, expected_count, verify_result>>
generatorVars == <<inspection_findings, thermal_findings, gen_result>>
validatorVars == <<inspection_data, thermal_data, val_result>>

gateVars == <<limiter, clock, limiter_result>>
pipelineVars == <<trace>>

vars == <<pc, parserVars, verifierVars, generatorVars, validatorVars, gateVars, pipelineVars>>

(***************************************************************************)
(* Values of the state before an operation has run.                        *)
(***************************************************************************)
\* an optional string: None, or Str(s) for the string s
None == [tag |-> "None", val |-> <<>>]
Str(s) == [tag |-> "str", val |-> s]

DefaultMaxAreas == 20

NoResult == [raised |-> FALSE, found |-> 0, maximum |-> 0, areas |-> <<>>]
NoParse == [raised |-> "", areas |-> <<>>]
NoVerdict == [raised |-> FALSE, expected |-> 0, actual |-> 0]
NoGeneration ==
    [raised |-> "", ddr_text |-> <<>>, thermal_findings |-> <<>>, thermal_count |-> 0,
     unique_image_ids |-> 0, area_count |-> 0, calls |-> <<>>, violation |-> NoVerdict]
\* a dict without its list key ("areas", "thermal_readings")
NoData == [present |-> FALSE, items |-> <<>>]
NoReport == [valid |-> TRUE, errors |-> <<>>, warnings |-> <<>>, area_count |-> 0, thermal_count |-> 0]
NoValidation ==
    [raised |-> "", validation |-> NoReport, inspection |-> NoData, thermal |-> NoData,
     given |-> [inspection |-> NoData, thermal |-> NoData]]

ParserIdle ==
    /\ text = <<>>
    /\ max_areas = DefaultMaxAreas
    /\ seg_result = NoResult
    /\ parse_result = NoParse

VerifierIdle ==
    /\ ddr_text = <<>>
    /\ expected_count = 0
    /\ verify_result = NoVerdict

GeneratorIdle ==
    /\ inspection_findings = <<>>
    /\ thermal_findings = <<>>
    /\ gen_result = NoGeneration

ValidatorIdle ==
    /\ inspection_data = NoData
    /\ thermal_data = NoData
    /\ val_result = NoValidation

\* last_call_time: None, or the time of the last granted slot
NoTime == [set |-> FALSE, at |-> 0]
NoLimiter ==
    [rpm |-> 0, rpd |-> 0, min_interval |-> 0, last_call_time |-> NoTime, daily_calls |-> 0,
     last_reset_date |-> 0, call_history |-> <<>>]
NoClock == [time |-> 0, date |-> 0]
NoStatus ==
    [raised |-> FALSE, call_number |-> 0, daily_limit |-> 0, waited_seconds |-> 0,
     remaining_today |-> 0, slept |-> FALSE]

GateIdle ==
    /\ limiter = NoLimiter
    /\ clock = NoClock
    /\ limiter_result = NoStatus

PipelineIdle == trace = <<>>

(***************************************************************************)
(* Characters and the str methods the source uses.                         *)
(***************************************************************************)
UpperChars == <<"A","B","C","D","E","F","G","H","I","J","K","L","M","N","O","P","Q","R","S","T","U","V","W","X","Y","Z">>
LowerChars == <<"a","b","c","d","e","f","g","h","i","j","k","l","m","n","o","p","q","r","s","t","u","v","w","x","y","z">>
DigitChars == <<"0","1","2","3","4","5","6","7","8","9">>

UpperSet == {UpperChars[i] : i \in 1..26}
LowerSet == {LowerChars[i] : i \in 1..26}
DigitSet == {DigitChars[i] : i \in 1..10}
SpaceSet == {" ", "\n", "\t"}

LowerOf == [c \in UpperSet |-> LowerChars[CHOOSE i \in 1..26 : UpperChars[i] = c]]
DigitValue == [c \in DigitSet |-> (CHOOSE i \in 1..10 : DigitChars[i] = c) - 1]

\* str.lower() on one character
lower_char(c) == IF c \in UpperSet THEN LowerOf[c] ELSE c

\* str.lower()
lower(s) == [i \in 1..Len(s) |-> lower_char(s[i])]

\* \d, \s and \w of the re module (ASCII part)
IsDigit(c) == c \in DigitSet
IsSpace(c) == c \in SpaceSet
IsWordChar(c) == c \in UpperSet \cup LowerSet \cup DigitSet \cup {"_"}

\* int(x) for a string of decimal digits
RECURSIVE int(_)
int(x) == IF x = <<>> THEN 0 ELSE 10 * int(SubSeq(x, 1, Len(x) - 1)) + DigitValue[x[Len(x)]]

\* text[a:b] with 0 <= a, 0 <= b <= len(text): empty when a >= b
Slice(s, a, b) == SubSeq(s, a + 1, b)

\* a literal of a pattern compiled with re.IGNORECASE matches at 1-based index i
LiteralAt(s, i, lit) ==
    /\ i >= 1
    /\ i + Len(lit) - 1 <= Len(s)
    /\ \A k \in 1..Len(lit) : lower_char(s[i + k - 1]) = lower_char(lit[k])

\* the first index >= i whose character does not satisfy Class (Len(s)+1 when none)
RECURSIVE SkipDigits(_, _)
SkipDigits(s, i) == IF i <= Len(s) /\ IsDigit(s[i]) THEN SkipDigits(s, i + 1) ELSE i

RECURSIVE SkipSpaces(_, _)
SkipSpaces(s, i) == IF i <= Len(s) /\ IsSpace(s[i]) THEN SkipSpaces(s, i + 1) ELSE i

(***************************************************************************)
(* area_parser.extract_impacted_areas_from_text                            *)
(***************************************************************************)
ImpactedArea == <<"I","m","p","a","c","t","e","d"," ","A","r","e","a">>

NoMatch == [ok |-> FALSE, start |-> 0, end |-> 0, group1 |-> <<>>]

\* MarkerMatchAt with the pattern r'Area\s+(\d+)': the "Impacted " prefix is lost
MarkerMatchAt_AnyArea(s, i) ==
    LET word == <<"A","r","e","a">>
        ws == i + Len(word)
        d  == SkipSpaces(s, ws)
        e  == SkipDigits(s, d)
    IN  IF LiteralAt(s, i, word) /\ d > ws /\ e > d
        THEN [ok |-> TRUE, start |-> i - 1, end |-> e - 1, group1 |-> SubSeq(s, d, e - 1)]
        ELSE NoMatch

\* pattern = r'Impacted Area\s+(\d+)' tried at 1-based index i; start and end are
\* match.start() and match.end(), group1 is match.group(1)
MarkerMatchAt(s, i) ==
    IF ~LiteralAt(s, i, ImpactedArea) THEN NoMatch
    ELSE LET ws == i + Len(ImpactedArea)
             d  == SkipSpaces(s, ws)
             e  == SkipDigits(s, d)
         IN  IF d > ws /\ e > d
             THEN [ok |-> TRUE, start |-> i - 1, end |-> e - 1, group1 |-> SubSeq(s, d, e - 1)]
             ELSE NoMatch

\* the indices at which the pattern matches
MarkerStarts(s) == {j \in 1..Len(s) : MarkerMatchAt(s, j).ok}

\* the leftmost index >= i at which the pattern matches, 0 when there is none
NextMarker(starts, i) ==
    IF \E j \in starts : j >= i
    THEN CHOOSE j \in starts : j >= i /\ \A k \in starts : k >= i => j <= k
    ELSE 0

\* list(re.finditer(pattern, text, re.IGNORECASE)): leftmost matches, left to
\* right, each search resuming where the previous match ended
RECURSIVE finditer(_, _, _)
finditer(s, starts, i) ==
    LET j == NextMarker(starts, i)
    IN  IF j = 0 THEN <<>>
        ELSE <<MarkerMatchAt(s, j)>> \o finditer(s, starts, MarkerMatchAt(s, j).end + 1)

\* "if area_num in unique_areas": the dict is keyed by the digit string
InUniqueAreas(unique_areas, area_num) ==
    \E k \in 1..Len(unique_areas) : unique_areas[k].area_number = area_num

\* the loop over matches: unique_areas in insertion order, first occurrence kept
RECURSIVE UniqueAreas(_, _)
UniqueAreas(matches, unique_areas) ==
    IF matches = <<>> THEN unique_areas
    ELSE LET area_num == Head(matches).group1
         IN  IF InUniqueAreas(unique_areas, area_num)
             THEN UniqueAreas(Tail(matches), unique_areas)
             ELSE UniqueAreas(Tail(matches),
                      Append(unique_areas, [area_number |-> area_num,
                                            match_position |-> Head(matches).start]))

\* key=lambda x: int(x): whether a sorts strictly before b
SortsBefore(a, b) == int(a) < int(b)

\* sorted(): stable, an element goes after every element that does not sort after it
RECURSIVE InsertSorted(_, _)
InsertSorted(sorted, x) ==
    IF sorted = <<>> THEN <<x>>
    ELSE IF SortsBefore(x.area_number, Head(sorted).area_number)
         THEN <<x>> \o sorted
         ELSE <<Head(sorted)>> \o InsertSorted(Tail(sorted), x)

RECURSIVE Sorted(_, _)
Sorted(unique_areas, acc) ==
    IF unique_areas = <<>> THEN acc
    ELSE Sorted(Tail(unique_areas), InsertSorted(acc, Head(unique_areas)))

AreaLabel(area_num) == ImpactedArea \o <<" ">> \o area_num

\* the loop that builds the areas list with text chunks
BuildAreas(s, sorted_areas) ==
    [i \in 1..Len(sorted_areas) |->
        LET start_pos == sorted_areas[i].match_position
            end_pos   == IF i + 1 <= Len(sorted_areas)
                         THEN sorted_areas[i + 1].match_position
                         ELSE Len(s)
        IN  [area_number |-> sorted_areas[i].area_number,
             area_name   |-> AreaLabel(sorted_areas[i].area_number),
             text_chunk  |-> Slice(s, start_pos, end_pos)]]

\* whether the ceiling check raises
ExceedsMaximum(count, maximum) == count > maximum

\* the call: either the returned list, or the ValueError with the count in it
extract_impacted_areas_from_text(s, maximum) ==
    LET starts == MarkerStarts(s)
        matches == finditer(s, starts, 1)
        unique_areas == UniqueAreas(matches, <<>>)
        sorted_areas == Sorted(unique_areas, <<>>)
    IN  IF matches = <<>>
        THEN [raised |-> FALSE, found |-> 0, maximum |-> maximum, areas |-> <<>>]
        ELSE IF ExceedsMaximum(Len(sorted_areas), maximum)
        THEN [raised |-> TRUE, found |-> Len(sorted_areas), maximum |-> maximum,
              areas |-> <<>>]
        ELSE [raised |-> FALSE, found |-> Len(sorted_areas), maximum |-> maximum,
              areas |-> BuildAreas(s, sorted_areas)]

(***************************************************************************)
(* area_parser.extract_descriptions_from_area_chunk                        *)
(***************************************************************************)
NegativeSideDescription == <<"N","e","g","a","t","i","v","e"," ","s","i","d","e"," ","D","e","s","c","r","i","p","t","i","o","n">>
NegativeSidePhotographs == <<"N","e","g","a","t","i","v","e"," ","s","i","d","e"," ","p","h","o","t","o","g","r","a","p","h","s">>
PositiveSide == <<"P","o","s","i","t","i","v","e"," ","s","i","d","e">>
PositiveSideDescription == <<"P","o","s","i","t","i","v","e"," ","s","i","d","e"," ","D","e","s","c","r","i","p","t","i","o","n">>
PositiveSidePhotographs == <<"P","o","s","i","t","i","v","e"," ","s","i","d","e"," ","p","h","o","t","o","g","r","a","p","h","s">>
Photo == <<"P","h","o","t","o">>
FlatNo == <<"F","l","a","t"," ","N","o",".">>

\* the alternatives of the lookahead of neg_pattern and of pos_pattern
NegativeStops == <<NegativeSidePhotographs, PositiveSide, ImpactedArea>>
PositiveStops == <<PositiveSidePhotographs, ImpactedArea>>

\* room_patterns, in priority order; the last entry, (Flat No\.\s*\d+), is FlatSearch
RoomNames == <<
    <<"H","a","l","l">>,
    <<"B","e","d","r","o","o","m">>,
    <<"M","a","s","t","e","r"," ","B","e","d","r","o","o","m">>,
    <<"C","o","m","m","o","n"," ","B","e","d","r","o","o","m">>,
    <<"K","i","t","c","h","e","n">>,
    <<"B","a","t","h","r","o","o","m">>,
    <<"C","o","m","m","o","n"," ","B","a","t","h","r","o","o","m">>,
    <<"M","B"," ","B","a","t","h","r","o","o","m">>,
    <<"L","i","v","i","n","g"," ","R","o","o","m">>,
    <<"D","i","n","i","n","g"," ","R","o","o","m">>,
    <<"B","a","l","c","o","n","y">>,
    <<"P","a","r","k","i","n","g">>,
    <<"E","n","t","r","a","n","c","e">> >>

\* str.strip(): from the first to the last character that is not whitespace
strip(s) ==
    IF \A i \in 1..Len(s) : IsSpace(s[i]) THEN <<>>
    ELSE SubSeq(s,
             CHOOSE i \in 1..Len(s) : ~IsSpace(s[i]) /\ \A k \in 1..(i - 1) : IsSpace(s[k]),
             CHOOSE i \in 1..Len(s) : ~IsSpace(s[i]) /\ \A k \in (i + 1)..Len(s) : IsSpace(s[k]))

\* (?=stop1|stop2|...|$) at 1-based index p; $ also holds before a final newline
LookaheadAt(s, p, stops) ==
    \/ \E k \in 1..Len(stops) : LiteralAt(s, p, stops[k])
    \/ p = Len(s) + 1
    \/ p = Len(s) /\ s[p] = "\n"

\* (.+?) from index j on: the least end whose next position satisfies the
\* lookahead (the end of the text always does)
LazyEnd(s, j, stops) ==
    CHOOSE e \in j..Len(s) :
        LookaheadAt(s, e + 1, stops) /\ \A k \in j..(e - 1) : ~LookaheadAt(s, k + 1, stops)

NoGroup == [ok |-> FALSE, group1 |-> <<>>]

\* header\s*(.+?)(?=...|$) with IGNORECASE | DOTALL tried at index i: \s* takes all
\* the whitespace, and gives one character back when nothing follows it
DescriptionMatchAt(s, i, header, stops) ==
    IF ~LiteralAt(s, i, header) THEN NoGroup
    ELSE LET a == i + Len(header)
             j == SkipSpaces(s, a)
         IN  IF j <= Len(s)
             THEN [ok |-> TRUE, group1 |-> SubSeq(s, j, LazyEnd(s, j, stops))]
             ELSE IF j > a
             THEN [ok |-> TRUE, group1 |-> <<s[Len(s)]>>]
             ELSE NoGroup

\* whether the pattern matches at index i
DescriptionStartsAt(s, i, header) ==
    /\ LiteralAt(s, i, header)
    /\ SkipSpaces(s, i + Len(header)) <= Len(s) \/ SkipSpaces(s, i + Len(header)) > i + Len(header)

\* re.search(pattern, area_chunk, re.IGNORECASE | re.DOTALL): the leftmost match
DescriptionSearch(s, header, stops) ==
    IF \E i \in 1..Len(s) : DescriptionStartsAt(s, i, header)
    THEN DescriptionMatchAt(s,
             CHOOSE i \in 1..Len(s) :
                 DescriptionStartsAt(s, i, header)
                     /\ \A k \in 1..(i - 1) : ~DescriptionStartsAt(s, k, header),
             header, stops)
    ELSE NoGroup

\* Photo\s+\d+ at index i: the index after the match, 0 when there is none
PhotoMatchEnd(s, i) ==
    IF ~LiteralAt(s, i, Photo) THEN 0
    ELSE LET a == i + Len(Photo)
             d == SkipSpaces(s, a)
             e == SkipDigits(s, d)
         IN  IF d > a /\ e > d THEN e ELSE 0

\* re.sub(r'Photo\s+\d+', '', s, flags=re.IGNORECASE) from index i on: what lies
\* before the leftmost match is kept, and the search resumes after the match
RECURSIVE RemovePhotos(_, _)
RemovePhotos(s, i) ==
    IF \E j \in i..Len(s) : PhotoMatchEnd(s, j) > 0
    THEN LET j == CHOOSE j \in i..Len(s) :
                      PhotoMatchEnd(s, j) > 0 /\ \A k \in i..(j - 1) : PhotoMatchEnd(s, k) = 0
         IN  SubSeq(s, i, j - 1) \o RemovePhotos(s, PhotoMatchEnd(s, j))
    ELSE SubSeq(s, i, Len(s))

\* group(1).strip(), the photo references removed, .strip() again
CleanDescription(group1) == strip(RemovePhotos(strip(group1), 1))

\* "if neg_text and len(neg_text) > 3"
Usable(obs_text) == obs_text # <<>> /\ Len(obs_text) > 3

\* ^(name)\b with IGNORECASE
AnchoredRoomMatch(s, name) ==
    /\ LiteralAt(s, 1, name)
    /\ Len(s) = Len(name) \/ ~IsWordChar(s[Len(name) + 1])

\* Flat No\.\s*\d+ at index i: the index after the match, 0 when there is none
FlatMatchEnd(s, i) ==
    IF ~LiteralAt(s, i, FlatNo) THEN 0
    ELSE LET d == SkipSpaces(s, i + Len(FlatNo))
             e == SkipDigits(s, d)
         IN  IF e > d THEN e ELSE 0

\* re.search(r'(Flat No\.\s*\d+)', s, re.IGNORECASE): group(1), or None
FlatSearch(s) ==
    IF \E i \in 1..Len(s) : FlatMatchEnd(s, i) > 0
    THEN LET i == CHOOSE i \in 1..Len(s) :
                      FlatMatchEnd(s, i) > 0 /\ \A k \in 1..(i - 1) : FlatMatchEnd(s, k) = 0
         IN  Str(SubSeq(s, i, FlatMatchEnd(s, i) - 1))
    ELSE None

\* "for pattern in room_patterns: ... break": group(1) of the first pattern, in
\* priority order from the k-th on, that matches; None when none does
RECURSIVE FirstRoomMatch(_, _)
FirstRoomMatch(s, k) ==
    IF k > Len(RoomNames) THEN FlatSearch(s)
    ELSE IF AnchoredRoomMatch(s, RoomNames[k])
         THEN Str(SubSeq(s, 1, Len(RoomNames[k])))
         ELSE FirstRoomMatch(s, k + 1)

\* room_patterns is assigned only inside the branch taken for a usable negative text
RoomPatternsBound(neg_used) == neg_used

\* the call: the returned dict, or raised = TRUE when the positive branch reads
\* room_patterns while it is unbound (UnboundLocalError)
extract_descriptions_from_area_chunk(area_chunk) ==
    LET neg_match == DescriptionSearch(area_chunk, NegativeSideDescription, NegativeStops)
        neg_text  == IF neg_match.ok THEN CleanDescription(neg_match.group1) ELSE <<>>
        neg_used  == neg_match.ok /\ Usable(neg_text)
        neg_name  == IF neg_used THEN FirstRoomMatch(neg_text, 1) ELSE None
        pos_match == DescriptionSearch(area_chunk, PositiveSideDescription, PositiveStops)
        pos_text  == IF pos_match.ok THEN CleanDescription(pos_match.group1) ELSE <<>>
        pos_used  == pos_match.ok /\ Usable(pos_text)
        reads_patterns == pos_used /\ neg_name = None
    IN  IF reads_patterns /\ ~RoomPatternsBound(neg_used)
        THEN [raised |-> TRUE, area_name |-> None,
              negative_observations |-> <<>>, positive_observations |-> <<>>]
        ELSE [raised |-> FALSE,
              area_name |-> IF neg_name # None THEN neg_name
                            ELSE IF pos_used THEN FirstRoomMatch(pos_text, 1)
                            ELSE None,
              negative_observations |-> IF neg_used THEN <<neg_text>> ELSE <<>>,
              positive_observations |-> IF pos_used THEN <<pos_text>> ELSE <<>>]

(***************************************************************************)
(* area_parser.normalize_area and parse_inspection_deterministically       *)
(***************************************************************************)
\* normalize_area without .lower()
normalize_area_CaseSensitive(name) == IF name = <<>> THEN <<>> ELSE strip(name)

normalize_area(name) == IF name = <<>> THEN <<>> ELSE lower(strip(name))

\* "if normalized_key in seen_rooms": the index in parsed_areas of the entry that
\* seen_rooms holds for the key, 0 when there is none
SeenRoom(parsed_areas, normalized_key) ==
    IF \E k \in 1..Len(parsed_areas) : normalize_area(parsed_areas[k].area_name) = normalized_key
    THEN CHOOSE k \in 1..Len(parsed_areas) : normalize_area(parsed_areas[k].area_name) = normalized_key
    ELSE 0

\* MergeObservations that assigns the new lists instead of extending the old ones
MergeObservations_Overwrite(existing, descriptions) ==
    [existing EXCEPT
        !.negative_observations = descriptions.negative_observations,
        !.positive_observations = descriptions.positive_observations]

\* the two extend() calls on the existing entry
MergeObservations(existing, descriptions) ==
    [existing EXCEPT
        !.negative_observations = @ \o descriptions.negative_observations,
        !.positive_observations = @ \o descriptions.positive_observations]

\* one iteration of "for area in areas" on a described section
FoldSection(parsed_areas, area, descriptions) ==
    LET area_name == IF descriptions.area_name # None /\ descriptions.area_name.val # <<>>
                     THEN descriptions.area_name.val
                     ELSE area.area_name
        k == SeenRoom(parsed_areas, normalize_area(area_name))
    IN  IF k > 0
        THEN [parsed_areas EXCEPT ![k] = MergeObservations(@, descriptions)]
        ELSE Append(parsed_areas,
                 [area_name |-> area_name,
                  negative_observations |-> descriptions.negative_observations,
                  positive_observations |-> descriptions.positive_observations])

\* the loop over the sections from the i-th on
RECURSIVE FoldSections(_, _, _)
FoldSections(areas, i, parsed_areas) ==
    IF i > Len(areas) THEN [raised |-> "", areas |-> parsed_areas]
    ELSE LET descriptions == extract_descriptions_from_area_chunk(areas[i].text_chunk)
         IN  IF descriptions.raised
             THEN [raised |-> "UnboundLocalError", areas |-> <<>>]
             ELSE FoldSections(areas, i + 1, FoldSection(parsed_areas, areas[i], descriptions))

\* the call: {"areas": parsed_areas}, or the exception that leaves it
parse_inspection_deterministically(s) ==
    LET found == extract_impacted_areas_from_text(s, DefaultMaxAreas)
    IN  IF found.raised THEN [raised |-> "ValueError", areas |-> <<>>]
        ELSE FoldSections(found.areas, 1, <<>>)

(***************************************************************************)
(* Input texts of area_parser.                                             *)
(***************************************************************************)
MaxFragments == 3
MaxSections == 3

RECURSIVE Concat(_)
Concat(seqs) == IF seqs = <<>> THEN <<>> ELSE Head(seqs) \o Concat(Tail(seqs))

\* the decimal numeral of n >= 0
RECURSIVE Decimal(_)
Decimal(n) == IF n < 10 THEN <<DigitChars[n + 1]>> ELSE Decimal(n \div 10) \o <<DigitChars[(n % 10) + 1]>>

\* markers in several spellings, and near-markers that the pattern does not match
Fragments == {
    <<"I","m","p","a","c","t","e","d"," ","A","r","e","a"," ","1","\n">>,
    <<"I","M","P","A","C","T","E","D"," ","A","R","E","A","\n","2"," ">>,
    <<"i","m","p","a","c","t","e","d"," ","a","r","e","a"," ","0","1",":">>,
    <<"I","m","p","a","c","t","e","d"," ","A","r","e","a"," ","1","0","x">>,
    <<"I","m","p","a","c","t","e","d"," ","A","r","e","a"," ","X","\n">>,
    <<"A","r","e","a"," ","3",":"," ","o","k","\n">> }

FragmentTexts ==
    { Concat(fs) : fs \in UNION { [1..n -> Fragments] : n \in 0..MaxFragments } }

\* what follows a marker in a report: descriptions of a section
Bodies == {
    <<"\n","N","e","g","a","t","i","v","e"," ","s","i","d","e"," ","D","e","s","c","r","i","p","t","i","o","n","\n","H","a","l","l"," ","d","a","m","p"," ","P","h","o","t","o"," ","1","\n","N","e","g","a","t","i","v","e"," ","s","i","d","e"," ","p","h","o","t","o","g","r","a","p","h","s","\n">>,
    <<"\n","n","e","g","a","t","i","v","e"," ","s","i","d","e"," ","d","e","s","c","r","i","p","t","i","o","n"," ","H","A","L","L"," ","l","e","a","k","\n","P","o","s","i","t","i","v","e"," ","s","i","d","e"," ","D","e","s","c","r","i","p","t","i","o","n","\n","K","i","t","c","h","e","n"," ","o","k","\n">>,
    <<"\n","N","e","g","a","t","i","v","e"," ","s","i","d","e"," ","D","e","s","c","r","i","p","t","i","o","n"," ","K","i","t","c","h","e","n"," ","w","e","t","\n">>,
    <<"\n","P","o","s","i","t","i","v","e"," ","s","i","d","e"," ","D","e","s","c","r","i","p","t","i","o","n","\n","H","a","l","l"," ","f","i","n","e","\n">>,
    <<"\n","N","e","g","a","t","i","v","e"," ","s","i","d","e"," ","D","e","s","c","r","i","p","t","i","o","n","\n","l","e","a","k"," ","i","n"," ","F","l","a","t"," ","N","o","."," ","7","\n">>,
    <<"\n","N","e","g","a","t","i","v","e"," ","s","i","d","e"," ","D","e","s","c","r","i","p","t","i","o","n","\n","H","a","l","l","w","a","y"," ","d","a","m","p","\n">>,
    <<"\n">>,
    <<"\n","N","e","g","a","t","i","v","e"," ","s","i","d","e"," ","D","e","s","c","r","i","p","t","i","o","n"," ","o","k","\n">> }

\* a report of n sections: the i-th marker is numbered i (ascending) or n+1-i
SectionTexts ==
    { Concat([i \in 1..Len(bs) |->
                 ImpactedArea \o <<" ">>
                     \o Decimal(IF ascending THEN i ELSE Len(bs) + 1 - i) \o bs[i]]) :
        bs \in UNION { [1..n -> Bodies] : n \in 0..MaxSections },
        ascending \in BOOLEAN }

\* a report whose markers carry the given ordinals, in the given order
OrdinalsText(ordinals) ==
    Concat([i \in 1..Len(ordinals) |-> ImpactedArea \o <<" ">> \o Decimal(ordinals[i]) \o <<"\n">>])

ManyMarkersTexts == {
    OrdinalsText(<<1, 10, 2, 3, 4, 5, 6, 7, 8, 9>>),
    OrdinalsText([i \in 1..10 |-> 11 - i]),
    OrdinalsText([i \in 1..DefaultMaxAreas |-> i]),
    OrdinalsText([i \in 1..(DefaultMaxAreas + 1) |-> i]),
    OrdinalsText([i \in 1..25 |-> 26 - i]) }

MaxAreasChoices == {1, 2, 3, DefaultMaxAreas}

InitParser ==
    /\ pc = "input"
    /\ text \in FragmentTexts \cup SectionTexts \cup ManyMarkersTexts
    /\ max_areas = DefaultMaxAreas
    /\ seg_result = NoResult
    /\ parse_result = NoParse
    /\ VerifierIdle /\ GeneratorIdle /\ ValidatorIdle /\ GateIdle /\ PipelineIdle

\* a caller runs extract_impacted_areas_from_text(text, m)
Segment ==
    /\ pc = "input"
    /\ \E m \in MaxAreasChoices :
          /\ max_areas' = m
          /\ seg_result' = extract_impacted_areas_from_text(text, m)
    /\ pc' = "segmented"
    /\ UNCHANGED <<text, parse_result, verifierVars, generatorVars, validatorVars,
                   gateVars, pipelineVars>>

\* a caller runs parse_inspection_deterministically(text)
Parse ==
    /\ pc = "input"
    /\ parse_result' = parse_inspection_deterministically(text)
    /\ pc' = "parsed"
    /\ UNCHANGED <<text, max_areas, seg_result, verifierVars, generatorVars, validatorVars,
                   gateVars, pipelineVars>>

NextParser == Segment \/ Parse

SpecParser == InitParser /\ [][NextParser]_vars

(***************************************************************************)
(* Properties of area_parser.                                              *)
(*                                                                         *)
(* What a text contains is stated here position by position, without the   *)
(* scanning operators of the model.                                        *)
(***************************************************************************)
\* the digits of the marker that starts at index i of t, <<>> when none starts there
MarkerDigitsAt(t, i) ==
    IF i + Len(ImpactedArea) - 1 <= Len(t)
          /\ \A k \in 1..Len(ImpactedArea) :
                 lower_char(t[i + k - 1]) = lower_char(ImpactedArea[k])
    THEN LET rest == SubSeq(t, i + Len(ImpactedArea), Len(t))
             sp == CHOOSE n \in 0..Len(rest) :
                       /\ \A k \in 1..n : IsSpace(rest[k])
                       /\ n = Len(rest) \/ ~IsSpace(rest[n + 1])
             dg == CHOOSE m \in 0..(Len(rest) - sp) :
                       /\ \A k \in 1..m : IsDigit(rest[sp + k])
                       /\ sp + m = Len(rest) \/ ~IsDigit(rest[sp + m + 1])
         IN  IF sp > 0 THEN SubSeq(rest, sp + 1, sp + dg) ELSE <<>>
    ELSE <<>>

MarkerPositions(t) == {i \in 1..Len(t) : MarkerDigitsAt(t, i) # <<>>}

\* t holds no numbered marker
NoMarker(t) == \A i \in 1..Len(t) : MarkerDigitsAt(t, i) = <<>>

\* the ordinals, as numbers, of the markers of t
TextOrdinals(t) == {int(MarkerDigitsAt(t, i)) : i \in MarkerPositions(t)}

\* the first index of t at which a marker of ordinal o starts
FirstOccurrence(t, o) ==
    CHOOSE i \in MarkerPositions(t) :
        /\ int(MarkerDigitsAt(t, i)) = o
        /\ \A k \in MarkerPositions(t) : int(MarkerDigitsAt(t, k)) = o => i <= k

\* C1: when the markers of the text are exactly the ordinals 1..N, N <= max_areas,
\* extract_impacted_areas_from_text returns exactly N sections, their ordinals in
\* strictly ascending numeric order
C1_AscendingSections ==
    LET ordinals == TextOrdinals(text)
        N == Cardinality(ordinals)
    IN  (pc = "segmented" /\ ordinals = 1..N /\ N <= max_areas)
        => /\ ~seg_result.raised
           /\ Len(seg_result.areas) = N
           /\ \A i \in 1..(Len(seg_result.areas) - 1) :
                  int(seg_result.areas[i].area_number) < int(seg_result.areas[i + 1].area_number)

\* C2: with more than max_areas distinct marker ordinals the call fails and reports
\* the number of distinct ordinals of the text; with exactly max_areas it does not fail
C2_OverflowCount ==
    LET distinct == Cardinality(TextOrdinals(text))
    IN  pc = "segmented"
        => /\ distinct > max_areas => seg_result.raised /\ seg_result.found = distinct
           /\ distinct = max_areas => ~seg_result.raised

\* C3: a text without a numbered marker gives the empty sequence and no error, and
\* parse_inspection_deterministically then gives an empty areas list
C3_NoMarkersEmpty ==
    (pc # "input" /\ NoMarker(text))
    => /\ pc = "segmented" => ~seg_result.raised /\ seg_result.areas = <<>>
       /\ pc = "parsed" => parse_result.raised = "" /\ parse_result.areas = <<>>

\* C3 witness: a text that mentions "Impacted Area" and "Area 3:" without a numbered
\* marker has been parsed
C3_Witness ==
    /\ pc = "parsed"
    /\ NoMarker(text)
    /\ Len(text) > Len(ImpactedArea)
    /\ \E i \in 1..Len(text) : LiteralAt(text, i, ImpactedArea)
    /\ \E i \in 1..Len(text) : IsDigit(text[i])

\* C4: an ordinal that appears in the text, however often, has exactly one section,
\* and that section starts at the first occurrence of the ordinal
C4_OneSectionPerOrdinal ==
    (pc = "segmented" /\ ~seg_result.raised)
    => \A o \in TextOrdinals(text) :
          /\ Cardinality({k \in 1..Len(seg_result.areas) :
                             int(seg_result.areas[k].area_number) = o}) = 1
          /\ \A k \in 1..Len(seg_result.areas) :
                 int(seg_result.areas[k].area_number) = o
                 => LET chunk == seg_result.areas[k].text_chunk
                        p == FirstOccurrence(text, o)
                    IN  chunk = SubSeq(text, p, p + Len(chunk) - 1)

\* C22: in every result of extract_impacted_areas_from_text the ordinals of the returned
\* sections are pairwise distinct as integers ("Impacted Area 1" and "Impacted Area 01"
\* yield one section) and each is a positive integer
C22_DistinctPositiveOrdinals ==
    (pc = "segmented" /\ ~seg_result.raised)
    => /\ \A i, j \in 1..Len(seg_result.areas) :
              i # j => int(seg_result.areas[i].area_number) # int(seg_result.areas[j].area_number)
       /\ \A i \in 1..Len(seg_result.areas) : int(seg_result.areas[i].area_number) > 0

\* the first index of t at which a marker with the digit string digits starts
MarkerOf(t, digits) ==
    CHOOSE i \in MarkerPositions(t) :
        /\ MarkerDigitsAt(t, i) = digits
        /\ \A k \in MarkerPositions(t) : MarkerDigitsAt(t, k) = digits => i <= k

\* C23: the text span of every returned section is non-empty, begins with the section's
\* own marker, and ends where another marker starts or at the end of the document, also
\* when the markers appear in the text in an order different from their numeric order
C23_SpanFromOwnMarker ==
    (pc = "segmented" /\ ~seg_result.raised)
    => \A k \in 1..Len(seg_result.areas) :
          LET chunk == seg_result.areas[k].text_chunk
              p == MarkerOf(text, seg_result.areas[k].area_number)
          IN  /\ chunk # <<>>
              /\ chunk = SubSeq(text, p, p + Len(chunk) - 1)
              /\ p + Len(chunk) - 1 = Len(text) \/ p + Len(chunk) \in MarkerPositions(text)

\* what the describer returns for the chunks of the sections from the i-th on, with
\* the label of each: the room name when there is one, else the marker's
RECURSIVE DescribedSections(_, _)
DescribedSections(sections, i) ==
    IF i > Len(sections) THEN <<>>
    ELSE LET d == extract_descriptions_from_area_chunk(sections[i].text_chunk)
         IN  <<[label |-> IF d.area_name # None THEN d.area_name.val
                          ELSE sections[i].area_name,
                negative_observations |-> d.negative_observations,
                positive_observations |-> d.positive_observations]>>
                 \o DescribedSections(sections, i + 1)

\* lowercase/trim normalization of a label
LabelKey(label) == lower(strip(label))

\* the indices of the sections whose label has the key, in encounter order
RECURSIVE SectionsOfKey(_, _, _)
SectionsOfKey(described, key, i) ==
    IF i > Len(described) THEN <<>>
    ELSE IF LabelKey(described[i].label) = key
         THEN <<i>> \o SectionsOfKey(described, key, i + 1)
         ELSE SectionsOfKey(described, key, i + 1)

\* C5: sections with equal normalized labels give one area, which keeps the name and
\* the position of the first of them and holds the concatenation, in encounter
\* order, of their negative and of their positive observation lists
C5_MergedByNormalizedLabel ==
    (pc = "parsed" /\ parse_result.raised = "")
    => LET described ==
               DescribedSections(extract_impacted_areas_from_text(text, DefaultMaxAreas).areas, 1)
           areas == parse_result.areas
       IN  /\ \A i \in 1..Len(described) :
                  Cardinality({k \in 1..Len(areas) :
                      LabelKey(areas[k].area_name) = LabelKey(described[i].label)}) = 1
           /\ \A k \in 1..Len(areas) :
                  LET members == SectionsOfKey(described, LabelKey(areas[k].area_name), 1)
                  IN  /\ members # <<>>
                      /\ areas[k].area_name = described[members[1]].label
                      /\ k = Cardinality({LabelKey(described[i].label) : i \in 1..members[1]})
                      /\ areas[k].negative_observations
                             = Concat([m \in 1..Len(members) |->
                                          described[members[m]].negative_observations])
                      /\ areas[k].positive_observations
                             = Concat([m \in 1..Len(members) |->
                                          described[members[m]].positive_observations])

\* C5 witness: sections labelled Hall, Kitchen, HALL were parsed into two areas, the
\* first named Hall and holding the negative observations of both Hall sections
C5_Witness ==
    /\ pc = "parsed"
    /\ parse_result.raised = ""
    /\ Len(parse_result.areas) = 2
    /\ parse_result.areas[1].area_name = <<"H","a","l","l">>
    /\ parse_result.areas[2].area_name = <<"K","i","t","c","h","e","n">>
    /\ Len(parse_result.areas[1].negative_observations) = 2
    /\ LET described ==
               DescribedSections(extract_impacted_areas_from_text(text, DefaultMaxAreas).areas, 1)
       IN  /\ Len(described) = 3
           /\ described[3].label = <<"H","A","L","L">>

\* C6: the number of returned areas is the number of distinct normalized labels of
\* the sections, at most the number of sections, and no two returned areas have the
\* same normalized name
C6_DistinctNormalizedLabels ==
    (pc = "parsed" /\ parse_result.raised = "")
    => LET described ==
               DescribedSections(extract_impacted_areas_from_text(text, DefaultMaxAreas).areas, 1)
           areas == parse_result.areas
       IN  /\ Len(areas) = Cardinality({LabelKey(described[i].label) : i \in 1..Len(described)})
           /\ Len(areas) <= Len(described)
           /\ \A k, l \in 1..Len(areas) :
                  k # l => LabelKey(areas[k].area_name) # LabelKey(areas[l].area_name)

\* C6 witness: three sections whose labels differ only in case were parsed into one area
C6_Witness ==
    /\ pc = "parsed"
    /\ parse_result.raised = ""
    /\ Len(parse_result.areas) = 1
    /\ LET described ==
               DescribedSections(extract_impacted_areas_from_text(text, DefaultMaxAreas).areas, 1)
       IN  /\ Len(described) = 3
           /\ \E i, j \in 1..3 : described[i].label # described[j].label

\* the sections the parser describes
SectionsOf(t) ==
    LET found == extract_impacted_areas_from_text(t, DefaultMaxAreas)
    IN  IF found.raised THEN <<>> ELSE found.areas

\* the cleaned text after a description header of the chunk, empty when there is none
ObservationText(chunk, header, stops) ==
    LET found == DescriptionSearch(chunk, header, stops)
    IN  IF found.ok THEN CleanDescription(found.group1) ELSE <<>>

NegativeText(chunk) == ObservationText(chunk, NegativeSideDescription, NegativeStops)
PositiveText(chunk) == ObservationText(chunk, PositiveSideDescription, PositiveStops)

\* the label of the first room pattern, in priority order, that matches at the start of
\* the observation text; None when no pattern matches there
LabelAtStart(obs_text) ==
    IF \E k \in 1..Len(RoomNames) : AnchoredRoomMatch(obs_text, RoomNames[k])
    THEN LET k == CHOOSE k \in 1..Len(RoomNames) :
                      /\ AnchoredRoomMatch(obs_text, RoomNames[k])
                      /\ \A l \in 1..(k - 1) : ~AnchoredRoomMatch(obs_text, RoomNames[l])
         IN  Str(SubSeq(obs_text, 1, Len(RoomNames[k])))
    ELSE IF FlatMatchEnd(obs_text, 1) > 0
    THEN Str(SubSeq(obs_text, 1, FlatMatchEnd(obs_text, 1) - 1))
    ELSE None

\* C24: extract_descriptions_from_area_chunk returns a result for every chunk, and when a
\* chunk has no usable negative observation but a positive observation that begins with
\* a known room name, the returned area_name is that room name and
\* positive_observations holds the text
C24_LabelFallsBackToPositive ==
    pc = "parsed"
    => \A k \in 1..Len(SectionsOf(text)) :
          LET chunk == SectionsOf(text)[k].text_chunk
              d == extract_descriptions_from_area_chunk(chunk)
              pos_text == PositiveText(chunk)
          IN  /\ ~d.raised
              /\ (/\ ~Usable(NegativeText(chunk))
                  /\ Usable(pos_text)
                  /\ \E n \in 1..Len(RoomNames) : AnchoredRoomMatch(pos_text, RoomNames[n]))
                 => /\ d.area_name = LabelAtStart(pos_text)
                    /\ d.positive_observations = <<pos_text>>

\* C25: a room label is assigned only when a known room pattern matches at the start of
\* the observation text (the negative one, else the positive one), and it is the label
\* of the first such pattern in priority order; when no pattern matches at the start,
\* area_name is unset and the parsed area carries the label "Impacted Area <ordinal>"
C25_LabelOnlyFromStartOfText ==
    pc = "parsed"
    => \A k \in 1..Len(SectionsOf(text)) :
          LET section == SectionsOf(text)[k]
              d == extract_descriptions_from_area_chunk(section.text_chunk)
              neg_text == NegativeText(section.text_chunk)
              pos_text == PositiveText(section.text_chunk)
              expected == IF Usable(neg_text) /\ LabelAtStart(neg_text) # None
                          THEN LabelAtStart(neg_text)
                          ELSE IF Usable(pos_text) THEN LabelAtStart(pos_text)
                          ELSE None
          IN  ~d.raised
              => /\ d.area_name = expected
                 /\ (expected = None /\ parse_result.raised = "")
                    => \E a \in 1..Len(parse_result.areas) :
                           parse_result.areas[a].area_name = AreaLabel(section.area_number)

(***************************************************************************)
(* ddr_generator.ControlledDDRGenerator._validate_entity_count             *)
(***************************************************************************)
AreaWord == <<"A","r","e","a">>

\* Area\s+\d+: with IGNORECASE at index i: the index after the match, 0 when none
HeadingMatchEnd(s, i) ==
    IF ~LiteralAt(s, i, AreaWord) THEN 0
    ELSE LET a == i + Len(AreaWord)
             d == SkipSpaces(s, a)
             e == SkipDigits(s, d)
         IN  IF d > a /\ e > d /\ e <= Len(s) /\ s[e] = ":" THEN e + 1 ELSE 0

\* re.findall(r'Area\s+\d+:', ddr_text, re.IGNORECASE) from index i on: the matched
\* strings, leftmost first, each search resuming after the previous match
RECURSIVE findall(_, _)
findall(s, i) ==
    IF \E j \in i..Len(s) : HeadingMatchEnd(s, j) > 0
    THEN LET j == CHOOSE j \in i..Len(s) :
                      HeadingMatchEnd(s, j) > 0 /\ \A k \in i..(j - 1) : HeadingMatchEnd(s, k) = 0
         IN  <<SubSeq(s, j, HeadingMatchEnd(s, j) - 1)>> \o findall(s, HeadingMatchEnd(s, j))
    ELSE <<>>

\* CountMismatch that only rejects extra areas
CountMismatch_OnlyExtra(actual_count, expected) == actual_count > expected

\* "if actual_count != expected_count"
CountMismatch(actual_count, expected) == actual_count # expected

\* the call: raised = TRUE is the ValueError "ENTITY LOCK VIOLATION: Expected
\* {expected} areas, found {actual} in output"
_validate_entity_count(generated, expected) ==
    LET actual_count == Len(findall(generated, 1))
    IN  [raised |-> CountMismatch(actual_count, expected),
         expected |-> expected,
         actual |-> actual_count]

(***************************************************************************)
(* ddr_generator.ControlledDDRGenerator.generate_ddr                       *)
(***************************************************************************)
NotApplicable == <<"N","/","A">>
DegreesC == <<"°","C">>
Damness == <<"d","a","m","n","e","s","s">>
Dampness == <<"d","a","m","p","n","e","s","s">>

\* the prefixes list of _clean_thermal_value, in order
ThermalPrefixes == <<
    <<"H","o","t",":">>, <<"C","o","l","d",":">>, <<"D","i","f","f",":">>,
    <<"h","o","t",":">>, <<"c","o","l","d",":">>, <<"d","i","f","f",":">> >>

\* old occurs in s at index i (case-sensitive)
ExactAt(s, i, old) ==
    /\ i >= 1
    /\ i + Len(old) - 1 <= Len(s)
    /\ \A k \in 1..Len(old) : s[i + k - 1] = old[k]

\* "old in s" for a non-empty old
Contains(s, old) == \E i \in 1..Len(s) : ExactAt(s, i, old)

\* s.replace(old, new) from index i on, for a non-empty old
RECURSIVE Replace(_, _, _, _)
Replace(s, i, old, new) ==
    IF \E j \in i..Len(s) : ExactAt(s, j, old)
    THEN LET j == CHOOSE j \in i..Len(s) :
                      ExactAt(s, j, old) /\ \A k \in i..(j - 1) : ~ExactAt(s, k, old)
         IN  SubSeq(s, i, j - 1) \o new \o Replace(s, j + Len(old), old, new)
    ELSE SubSeq(s, i, Len(s))

\* s.split(",") from index i on
RECURSIVE Split(_, _)
Split(s, i) ==
    IF \E j \in i..Len(s) : s[j] = ","
    THEN LET j == CHOOSE j \in i..Len(s) : s[j] = "," /\ \A k \in i..(j - 1) : s[k] # ","
         IN  <<SubSeq(s, i, j - 1)>> \o Split(s, j + 1)
    ELSE <<SubSeq(s, i, Len(s))>>

\* the loop over prefixes, from the k-th prefix on
RECURSIVE StripPrefixes(_, _)
StripPrefixes(value, k) ==
    IF k > Len(ThermalPrefixes) THEN value
    ELSE IF Contains(value, ThermalPrefixes[k])
         THEN StripPrefixes(strip(Replace(value, 1, ThermalPrefixes[k], <<>>)), k + 1)
         ELSE StripPrefixes(value, k + 1)

_clean_thermal_value(value) ==
    IF value = NotApplicable THEN value
    ELSE LET v == StripPrefixes(value, 1)
         IN  IF ~Contains(v, DegreesC) /\ v # NotApplicable
             THEN IF strip(v) # <<>> /\ \E i \in 1..Len(strip(v)) : IsDigit(strip(v)[i])
                  THEN strip(v) \o <<" ">> \o DegreesC
                  ELSE strip(v)
             ELSE v

\* observation.replace('\n', ' ').replace('\r', ' ').replace('damness', 'dampness').strip()
CleanObservation(observation) ==
    strip(Replace(Replace(Replace(observation, 1, <<"\n">>, <<" ">>), 1, <<"\r">>, <<" ">>),
                  1, Damness, Dampness))

\* the k-th thermal value of a temperature_reading (k = 1, 2, 3), before cleaning
ThermalPart(temperature_reading, k) ==
    IF Contains(temperature_reading, <<",">>)
          /\ (k <= 2 \/ Len(Split(temperature_reading, 1)) > 2)
    THEN Split(temperature_reading, 1)[k]
    ELSE NotApplicable

\* the dict that _prepare_structured_json hands to json.dumps
_prepare_structured_json(inspection, thermal) ==
    [inspection |->
        [areas |-> [i \in 1..Len(inspection) |->
            [area_name |-> inspection[i].area,
             negative_observations |-> <<CleanObservation(inspection[i].observation)>>]]],
     thermal |->
        [thermal_readings |-> [i \in 1..Len(thermal) |->
            [image_id |-> thermal[i].image_id,
             hotspot |-> _clean_thermal_value(ThermalPart(thermal[i].temperature_reading, 1)),
             coldspot |-> _clean_thermal_value(ThermalPart(thermal[i].temperature_reading, 2)),
             temperature_difference |->
                 _clean_thermal_value(ThermalPart(thermal[i].temperature_reading, 3)),
             interpretation |-> thermal[i].thermal_interpretation]]]]

\* KeepFirst that assigns unique_thermal[image_id] = item also for a known image_id
KeepFirst_KeepLast(unique_thermal, item) ==
    IF \E k \in 1..Len(unique_thermal) : unique_thermal[k].image_id = item.image_id
    THEN [k \in 1..Len(unique_thermal) |->
             IF unique_thermal[k].image_id = item.image_id THEN item ELSE unique_thermal[k]]
    ELSE Append(unique_thermal, item)

\* one iteration of "for item in thermal_findings": unique_thermal, in insertion
\* order, gets the item unless its image_id is already a key
KeepFirst(unique_thermal, item) ==
    IF \E k \in 1..Len(unique_thermal) : unique_thermal[k].image_id = item.image_id
    THEN unique_thermal
    ELSE Append(unique_thermal, item)

RECURSIVE UniqueThermal(_, _)
UniqueThermal(findings, unique_thermal) ==
    IF findings = <<>> THEN unique_thermal
    ELSE UniqueThermal(Tail(findings), KeepFirst(unique_thermal, Head(findings)))

\* len(set(t.image_id for t in thermal_findings))
UniqueImageIds(findings) == Cardinality({findings[i].image_id : i \in 1..Len(findings)})

(***************************************************************************)
(* root_cause_extractor.extract_root_cause_from_observation and the method *)
(* _enrich_with_root_causes of ddr_generator.py, which applies it.         *)
(***************************************************************************)
NotAvailable == <<"N","o","t"," ","A","v","a","i","l","a","b","l","e">>
RequiresFurtherInvestigation == <<"R","e","q","u","i","r","e","s"," ","f","u","r","t","h","e","r"," ","i","n","v","e","s","t","i","g","a","t","i","o","n">>

\* the literals of cause_patterns, in order; each is followed by (.+?)(?:\.|$|,)
CauseLiterals == <<
    <<"d","u","e"," ","t","o"," ">>,
    <<"c","a","u","s","e","d"," ","b","y"," ">>,
    <<"b","e","c","a","u","s","e"," ","o","f"," ">>,
    <<"f","r","o","m"," ">>,
    <<"r","e","s","u","l","t","i","n","g"," ","f","r","o","m"," ">>,
    <<"a","t","t","r","i","b","u","t","e","d"," ","t","o"," ">> >>

\* (?:\.|$|,) at index p: a full stop, a comma, or the end of the string ($ also holds
\* before a final newline)
CauseStopAt(s, p) ==
    \/ p = Len(s) + 1
    \/ p <= Len(s) /\ s[p] \in {".", ","}
    \/ p = Len(s) /\ s[p] = "\n"

\* (.+?) from index j on: the ends e of a group that has no newline and is followed by a stop
CauseEnds(s, j) ==
    {e \in j..Len(s) : (\A k \in j..e : s[k] # "\n") /\ CauseStopAt(s, e + 1)}

\* the pattern of the literal matches at index i
CauseMatchesAt(s, i, literal) == LiteralAt(s, i, literal) /\ CauseEnds(s, i + Len(literal)) # {}

\* str.rstrip('.,;')
RECURSIVE rstrip_punctuation(_)
rstrip_punctuation(s) ==
    IF s # <<>> /\ s[Len(s)] \in {".", ",", ";"}
    THEN rstrip_punctuation(SubSeq(s, 1, Len(s) - 1))
    ELSE s

UpperOf == [c \in LowerSet |-> UpperChars[CHOOSE i \in 1..26 : LowerChars[i] = c]]

\* str.capitalize()
capitalize(s) ==
    [i \in 1..Len(s) |-> IF i = 1 THEN (IF s[i] \in LowerSet THEN UpperOf[s[i]] ELSE s[i])
                         ELSE lower_char(s[i])]

\* "for pattern in cause_patterns", from the k-th pattern on
RECURSIVE FirstCause(_, _)
FirstCause(observation, k) ==
    IF k > Len(CauseLiterals) THEN RequiresFurtherInvestigation
    ELSE IF \E i \in 1..Len(observation) : CauseMatchesAt(observation, i, CauseLiterals[k])
    THEN LET i == CHOOSE i \in 1..Len(observation) :
                      /\ CauseMatchesAt(observation, i, CauseLiterals[k])
                      /\ \A l \in 1..(i - 1) : ~CauseMatchesAt(observation, l, CauseLiterals[k])
             j == i + Len(CauseLiterals[k])
             e == CHOOSE e \in CauseEnds(observation, j) :
                      \A f \in CauseEnds(observation, j) : e <= f
         IN  capitalize(rstrip_punctuation(strip(SubSeq(observation, j, e))))
    ELSE FirstCause(observation, k + 1)

extract_root_cause_from_observation(observation, provided_cause) ==
    IF provided_cause # <<>> /\ provided_cause # NotAvailable THEN provided_cause
    ELSE FirstCause(observation, 1)

\* _enrich_with_root_causes(findings): the findings, changed in place
_enrich_with_root_causes(findings) ==
    [i \in 1..Len(findings) |->
        IF findings[i].possible_cause = NotAvailable
        THEN [findings[i] EXCEPT !.possible_cause =
                 extract_root_cause_from_observation(findings[i].observation,
                                                     findings[i].possible_cause)]
        ELSE findings[i]]

\* the inspection findings after generate_ddr, which passes them to
\* _prepare_structured_json as they are and never calls _enrich_with_root_causes
UnenrichedFindings(findings) == findings

\* Attempts that asks the collaborator again after a failure
Attempts_Retry(call, failure) == IF failure THEN <<call, call>> ELSE <<call>>

\* the generate_content calls of one generate_ddr: the one call is followed by
\* "ddr_text = response.text", the verification and the return, with no loop and no
\* except branch around them
Attempts(call, failure) == <<call>>

\* the call, for the response of the generation collaborator (failed: the
\* collaborator raised); calls lists what each generate_content call was given
generate_ddr(inspection, thermal, response) ==
    LET deduplicated == UniqueThermal(thermal, <<>>)
        thermal_count == Len(deduplicated)
        unique_image_ids == UniqueImageIds(deduplicated)
        area_count == Len(inspection)
        call == [area_count |-> area_count, thermal_count |-> thermal_count,
                 json_data |-> _prepare_structured_json(inspection, deduplicated)]
        verdict == _validate_entity_count(response.text, area_count)
        locals == [raised |-> "", ddr_text |-> <<>>, thermal_findings |-> deduplicated,
                   thermal_count |-> thermal_count, unique_image_ids |-> unique_image_ids,
                   area_count |-> 0, calls |-> <<>>, violation |-> NoVerdict]
    IN  IF thermal_count # unique_image_ids
        THEN [locals EXCEPT !.raised = "AssertionError"]
        ELSE IF response.failed
        THEN [locals EXCEPT !.raised = "CollaboratorError", !.area_count = area_count,
                            !.calls = Attempts(call, TRUE)]
        ELSE IF verdict.raised
        THEN [locals EXCEPT !.raised = "ValueError", !.area_count = area_count,
                            !.calls = Attempts(call, TRUE), !.violation = verdict]
        ELSE [locals EXCEPT !.ddr_text = response.text, !.area_count = area_count,
                            !.calls = Attempts(call, FALSE), !.violation = verdict]

(***************************************************************************)
(* Inputs of the generator and of its verifier.                            *)
(***************************************************************************)
MaxHeadingFragments == 3
MaxExpected == 3
MaxFindings == 2
MaxThermal == 3

\* pieces of a generated report: headings in several spellings and near-headings
HeadingFragments == {
    <<"A","r","e","a"," ","1",":">>,
    <<"a","r","e","a"," "," ","2",":","\n">>,
    <<"A","r","e","a"," ","3"," ",":">>,
    <<"I","m","p","a","c","t","e","d"," ","A","r","e","a"," ","4",":">>,
    <<"A","r","e","a"," ","1","2">>,
    <<"\n","#","#"," ","S","u","m","m","a","r","y","\n">> }

GeneratedTexts ==
    { Concat(fs) : fs \in UNION { [1..n -> HeadingFragments] : n \in 0..MaxHeadingFragments } }

InitVerifier ==
    /\ pc = "input"
    /\ ddr_text \in GeneratedTexts
    /\ expected_count \in 0..MaxExpected
    /\ verify_result = NoVerdict
    /\ ParserIdle /\ GeneratorIdle /\ ValidatorIdle /\ GateIdle /\ PipelineIdle

\* a caller runs _validate_entity_count(ddr_text, expected_count)
Verify ==
    /\ pc = "input"
    /\ verify_result' = _validate_entity_count(ddr_text, expected_count)
    /\ pc' = "verified"
    /\ UNCHANGED <<ddr_text, expected_count, parserVars, generatorVars, validatorVars,
                   gateVars, pipelineVars>>

NextVerifier == Verify

SpecVerifier == InitVerifier /\ [][NextVerifier]_vars

InspectionFindingChoices == {
    [area |-> <<"H","a","l","l">>,
     observation |-> <<"S","k","i","r","t","i","n","g"," ","d","a","m","n","e","s","s","\n">>,
     severity_indicator |-> NotAvailable, possible_cause |-> NotAvailable],
    [area |-> <<"K","i","t","c","h","e","n">>,
     observation |-> <<"l","e","a","k"," ","d","u","e"," ","t","o"," ","p","i","p","e">>,
     severity_indicator |-> <<"H","i","g","h">>, possible_cause |-> NotAvailable] }

ThermalFindingChoices == {
    [image_id |-> <<"A",".","J","P","G">>,
     temperature_reading |-> <<"H","o","t",":"," ","2","8",".","8",","," ","C","o","l","d",":"," ","2","3",".","4">>,
     thermal_interpretation |-> <<"c","o","l","d"," ","s","p","o","t">>],
    [image_id |-> <<"A",".","J","P","G">>,
     temperature_reading |-> <<"2","9","°","C",",","2","1",",","D","i","f","f",":","8">>,
     thermal_interpretation |-> NotAvailable],
    [image_id |-> <<"a",".","j","p","g">>,
     temperature_reading |-> NotApplicable,
     thermal_interpretation |-> NotAvailable],
    [image_id |-> <<"B",".","J","P","G">>,
     temperature_reading |-> <<"H","o","t",":"," ","x",",">>,
     thermal_interpretation |-> <<"w","a","r","m">>] }

\* a generated report with n well-formed area headings
ReportWithHeadings(n) ==
    Concat([i \in 1..n |-> <<"*","*">> \o AreaWord \o <<" ">> \o Decimal(i) \o <<":">>
                               \o <<" ","o","k","\n">>])

\* what the generation collaborator may answer
Responses ==
    {[failed |-> TRUE, text |-> <<>>]}
        \cup {[failed |-> FALSE, text |-> ReportWithHeadings(n)] : n \in 0..(MaxFindings + 1)}

InitGenerator ==
    /\ pc = "input"
    /\ inspection_findings \in UNION { [1..n -> InspectionFindingChoices] : n \in 0..MaxFindings }
    /\ thermal_findings \in UNION { [1..n -> ThermalFindingChoices] : n \in 0..MaxThermal }
    /\ gen_result = NoGeneration
    /\ ParserIdle /\ VerifierIdle /\ ValidatorIdle /\ GateIdle /\ PipelineIdle

\* a caller runs generate_ddr(inspection_findings, thermal_findings, ...) and the
\* collaborator answers
Generate ==
    /\ pc = "input"
    /\ \E response \in Responses :
           gen_result' = generate_ddr(inspection_findings, thermal_findings, response)
    /\ inspection_findings' = UnenrichedFindings(inspection_findings)
    /\ pc' = "generated"
    /\ UNCHANGED <<thermal_findings, parserVars, verifierVars, validatorVars, gateVars,
                   pipelineVars>>

NextGenerator == Generate

SpecGenerator == InitGenerator /\ [][NextGenerator]_vars

(***************************************************************************)
(* Properties of the generator and of its verifier.                        *)
(***************************************************************************)
\* a heading "Area <integer>:" starts at index i of t
HeadingAt(t, i) ==
    /\ i + Len(AreaWord) - 1 <= Len(t)
    /\ lower(SubSeq(t, i, i + Len(AreaWord) - 1)) = lower(AreaWord)
    /\ \E d \in (i + Len(AreaWord) + 1)..Len(t) : \E e \in (d + 1)..Len(t) :
           /\ \A k \in (i + Len(AreaWord))..(d - 1) : IsSpace(t[k])
           /\ \A k \in d..(e - 1) : IsDigit(t[k])
           /\ t[e] = ":"

HeadingCount(t) == Cardinality({i \in 1..Len(t) : HeadingAt(t, i)})

\* C7: _validate_entity_count passes exactly when the text holds expected_count
\* headings "Area <integer>:", and the violation it raises otherwise reports the
\* expected and the actual count
C7_EntityLockExact ==
    pc = "verified"
    => /\ verify_result.raised <=> HeadingCount(ddr_text) # expected_count
       /\ verify_result.raised
              => /\ verify_result.expected = expected_count
                 /\ verify_result.actual = HeadingCount(ddr_text)

\* C7 witness: a text with the headings "Area 1:" and "area  2:" was verified against
\* an expected count of 3 and rejected with expected 3, actual 2
C7_Witness ==
    /\ pc = "verified"
    /\ expected_count = 3
    /\ HeadingCount(ddr_text) = 2
    /\ verify_result = [raised |-> TRUE, expected |-> 3, actual |-> 2]

\* the index in readings of the k-th reading that is the first with its image_id
FirstOfItsId(readings, i) == \A j \in 1..(i - 1) : readings[j].image_id # readings[i].image_id

KthFirst(readings, k) ==
    CHOOSE i \in 1..Len(readings) :
        /\ FirstOfItsId(readings, i)
        /\ Cardinality({j \in 1..i : FirstOfItsId(readings, j)}) = k

\* C8: the deduplication of generate_ddr keeps, in order, the first reading of every
\* image_id, the count is the number of distinct identifiers, and the consistency
\* assertion does not fail
C8_FirstReadingPerImage ==
    pc = "generated"
    => /\ gen_result.raised # "AssertionError"
       /\ gen_result.thermal_count
              = Cardinality({thermal_findings[i].image_id : i \in 1..Len(thermal_findings)})
       /\ Len(gen_result.thermal_findings) = gen_result.thermal_count
       /\ gen_result.unique_image_ids = gen_result.thermal_count
       /\ \A k \in 1..Len(gen_result.thermal_findings) :
              gen_result.thermal_findings[k] = thermal_findings[KthFirst(thermal_findings, k)]

\* C8 witness: two different readings of one image_id were reduced to the first one
C8_Witness ==
    /\ pc = "generated"
    /\ Len(thermal_findings) = 2
    /\ thermal_findings[1].image_id = thermal_findings[2].image_id
    /\ thermal_findings[1] # thermal_findings[2]
    /\ gen_result.thermal_findings = <<thermal_findings[1]>>
    /\ gen_result.thermal_count = 1
    /\ gen_result.raised = ""

\* C21: generate_ddr calls the generation collaborator at most once per invocation; when
\* the collaborator fails or the entity-count verification fails, the error leaves
\* generate_ddr (no report text is returned) and no second generation call is made
C21_AtMostOneGenerationCall ==
    pc = "generated"
    => /\ Len(gen_result.calls) <= 1
       /\ gen_result.violation.raised => gen_result.raised = "ValueError"
       /\ gen_result.raised # "" => gen_result.ddr_text = <<>>

\* C21 witness: the report failed the entity lock after the one generation call
C21_Witness ==
    /\ pc = "generated"
    /\ gen_result.raised = "ValueError"
    /\ Len(gen_result.calls) = 1

\* C28: generate_ddr computes no root-cause inference: the call leaves every inspection
\* finding as it was, possible_cause and severity_indicator included, and the payload it
\* sends to the collaborator holds, for an area, its name and its observations, and for a
\* reading its five thermal fields: no field carries a root cause
C28_NoRootCauseInference ==
    [][(pc = "input" /\ pc' = "generated")
           => /\ inspection_findings' = inspection_findings
              /\ \A c \in 1..Len(gen_result'.calls) :
                     LET json_data == gen_result'.calls[c].json_data
                     IN  /\ \A a \in 1..Len(json_data.inspection.areas) :
                                DOMAIN json_data.inspection.areas[a]
                                    = {"area_name", "negative_observations"}
                         /\ \A r \in 1..Len(json_data.thermal.thermal_readings) :
                                DOMAIN json_data.thermal.thermal_readings[r]
                                    = {"image_id", "hotspot", "coldspot",
                                       "temperature_difference", "interpretation"}]_vars

\* C28 witness: a finding whose observation names a cause ("leak due to pipe") and whose
\* possible_cause is "Not Available" went through generate_ddr and into a payload
C28_Witness ==
    /\ pc = "generated"
    /\ gen_result.calls # <<>>
    /\ \E i \in 1..Len(inspection_findings) :
           /\ inspection_findings[i].possible_cause = NotAvailable
           /\ extract_root_cause_from_observation(inspection_findings[i].observation,
                                                  NotAvailable) = <<"P","i","p","e">>

(***************************************************************************)
(* validator.py: StructuralValidator.validate_all.                         *)
(*                                                                         *)
(* A dict value is a tagged record: Missing (the key is absent), None,     *)
(* Str(s) or List(items).  inspection_data and thermal_data are            *)
(* [present, items]: whether the dict has its list key, and the list.      *)
(***************************************************************************)
Missing == [tag |-> "Missing", val |-> <<>>]
List(items) == [tag |-> "list", val |-> items]

MAX_AREAS == 20

Unknown == <<"U","N","K","N","O","W","N">>
CommaSpace == <<",", " ">>

\* d.get(key, default)
Get(value, default) == IF value.tag = "Missing" THEN default ELSE value

\* d.get(key)
GetOrNone(value) == Get(value, None)

\* "not value"
Falsy(value) == value.tag \in {"Missing", "None"} \/ value.val = <<>>

\* data.get("areas", []) and data.get("thermal_readings", [])
Items(data) == IF data.present THEN data.items ELSE <<>>

\* str.isupper()
isupper(s) ==
    /\ \E k \in 1..Len(s) : s[k] \in UpperSet
    /\ \A k \in 1..Len(s) : s[k] \notin LowerSet

\* sep.join(names)
RECURSIVE Join(_, _)
Join(names, sep) ==
    IF names = <<>> THEN <<>>
    ELSE IF Len(names) = 1 THEN names[1]
    ELSE names[1] \o sep \o Join(Tail(names), sep)

\* one entry of results["errors"] or results["warnings"]: the message with the
\* values interpolated into it
Message(message, subject, number, more) ==
    [message |-> message, subject |-> subject, number |-> number, more |-> more]

NoMessage == Message("", None, 0, 0)

\* how a check ends: it returns, or raises ValidationError(error) or another exception
Returns(results) == [raised |-> "", error |-> NoMessage, results |-> results]
Raises(exception, error, results) == [raised |-> exception, error |-> error, results |-> results]

Warned(results, warning) == [results EXCEPT !.warnings = Append(@, warning)]

Min(a, b) == IF a < b THEN a ELSE b

_validate_area_count(inspection, results) ==
    LET areas == Items(inspection)
        count == Len(areas)
        area_names == [k \in 1..Min(count, 30) |-> Get(areas[k].area_name, Str(Unknown))]
        shown == Min(Len(area_names), 10)
    IN  IF count > MAX_AREAS
        THEN IF \E k \in 1..shown : area_names[k].tag # "str"
             THEN Raises("TypeError", NoMessage, results)
             ELSE Raises("ValidationError",
                         Message("Area count exceeds maximum",
                                 Str(Join([k \in 1..shown |-> area_names[k].val], CommaSpace)),
                                 count,
                                 IF Len(area_names) > 10 THEN Len(area_names) - 10 ELSE 0),
                         results)
        ELSE IF count = 0
             THEN Returns(Warned(results,
                      Message("No areas extracted from inspection report", None, 0, 0)))
             ELSE Returns(results)

thermal_patterns == {
    <<".","j","p","g">>,
    <<".","j","p","e","g">>,
    <<".","p","n","g">>,
    <<"r","b","0">>,
    <<"r","b","_">>,
    <<"i","r","_">>,
    <<"i","r","0">> }

\* "for area in areas" of _validate_no_thermal_ids_in_areas, from the i-th area on
RECURSIVE CheckAreaNames(_, _, _)
CheckAreaNames(areas, i, results) ==
    IF i > Len(areas) THEN Returns(results)
    ELSE LET got == Get(areas[i].area_name, Str(<<>>))
         IN  IF got.tag # "str" THEN Raises("AttributeError", NoMessage, results)
             ELSE LET area_name == lower(got.val)
                  IN  IF \E pattern \in thermal_patterns : Contains(area_name, pattern)
                      THEN Raises("ValidationError",
                                  Message("Thermal image ID detected in areas",
                                          GetOrNone(areas[i].area_name), 0, 0),
                                  results)
                      ELSE CheckAreaNames(areas, i + 1,
                               IF Len(area_name) > 30 \/ (isupper(area_name) /\ Len(area_name) > 10)
                               THEN Warned(results,
                                        Message("Suspicious area name (might be ID)",
                                                GetOrNone(areas[i].area_name), 0, 0))
                               ELSE results)

_validate_no_thermal_ids_in_areas(inspection, results) ==
    CheckAreaNames(Items(inspection), 1, results)

common_areas == {
    <<"h","a","l","l">>,
    <<"b","e","d","r","o","o","m">>,
    <<"k","i","t","c","h","e","n">>,
    <<"b","a","t","h","r","o","o","m">>,
    <<"l","i","v","i","n","g">>,
    <<"d","i","n","i","n","g">> }

\* "for i, reading in enumerate(readings)" of _validate_thermal_structure
RECURSIVE CheckReadings(_, _, _)
CheckReadings(readings, i, results) ==
    IF i > Len(readings) THEN Returns(results)
    ELSE LET reading == readings[i]
             image_id == Get(reading.image_id, Str(<<>>))
         IN  IF reading.area.tag # "Missing" /\ reading.image_id.tag = "Missing"
             THEN Raises("ValidationError",
                         Message("Thermal reading uses 'area' instead of 'image_id'",
                                 None, i - 1, 0),
                         results)
             ELSE IF Falsy(image_id) \/ image_id = Str(NotAvailable)
             THEN CheckReadings(readings, i + 1, results)
             ELSE IF image_id.tag # "str" THEN Raises("AttributeError", NoMessage, results)
             ELSE CheckReadings(readings, i + 1,
                      IF \E area \in common_areas : Contains(lower(image_id.val), area)
                      THEN Warned(results,
                               Message("Thermal image_id looks like area name", image_id, 0, 0))
                      ELSE results)

_validate_thermal_structure(thermal, results) == CheckReadings(Items(thermal), 1, results)

\* "for reading in readings" of _validate_no_areas_in_thermal
RECURSIVE CheckImageIds(_, _, _, _)
CheckImageIds(readings, i, area_names, results) ==
    IF i > Len(readings) THEN Returns(results)
    ELSE LET got == Get(readings[i].image_id, Str(<<>>))
         IN  IF got.tag # "str" THEN Raises("AttributeError", NoMessage, results)
             ELSE CheckImageIds(readings, i + 1, area_names,
                      IF \E k \in 1..Len(area_names) : area_names[k] = lower(got.val)
                      THEN Warned(results,
                               Message("Thermal image_id matches area name",
                                       GetOrNone(readings[i].image_id), 0, 0))
                      ELSE results)

_validate_no_areas_in_thermal(inspection, thermal, results) ==
    LET areas == Items(inspection)
    IN  IF \E k \in 1..Len(areas) : Get(areas[k].area_name, Str(<<>>)).tag # "str"
        THEN Raises("AttributeError", NoMessage, results)
        ELSE CheckImageIds(Items(thermal), 1,
                 [k \in 1..Len(areas) |-> lower(Get(areas[k].area_name, Str(<<>>)).val)],
                 results)

\* the "areas" branch of _clean_null_fields on one area
CleanArea(area) ==
    [area EXCEPT
        !.area_name = IF Falsy(@) THEN Str(NotAvailable) ELSE @,
        !.negative_observations = IF @.tag # "list" THEN List(<<>>) ELSE @,
        !.positive_observations = IF @.tag # "list" THEN List(<<>>) ELSE @]

CleanField(value) == IF Falsy(value) THEN Str(NotAvailable) ELSE value

\* the "thermal_readings" branch of _clean_null_fields on one reading
CleanReading(reading) ==
    [reading EXCEPT
        !.image_id = CleanField(@),
        !.hotspot = CleanField(@),
        !.coldspot = CleanField(@),
        !.temperature_difference = CleanField(@),
        !.interpretation = CleanField(@)]

\* _clean_null_fields on inspection_data, whose list key is "areas"
CleanInspection(inspection) ==
    IF inspection.present
    THEN [inspection EXCEPT !.items = [k \in 1..Len(@) |-> CleanArea(@[k])]]
    ELSE inspection

\* _clean_null_fields on thermal_data, whose list key is "thermal_readings"
CleanThermal(thermal) ==
    IF thermal.present
    THEN [thermal EXCEPT !.items = [k \in 1..Len(@) |-> CleanReading(@[k])]]
    ELSE thermal

\* Caught that records the error and leaves valid as it was
Caught_StaysValid(results, error) == [results EXCEPT !.errors = Append(@, error)]

\* "except ValidationError as e": the report is marked invalid and holds str(e)
Caught(results, error) == [results EXCEPT !.valid = FALSE, !.errors = Append(@, error)]

\* validate_all: raised is "" when it returns.  inspection and thermal are the two
\* dicts after the call: the ones returned are the caller's own objects, which
\* _clean_null_fields rewrites in place.  given holds the arguments as passed.
validate_all(inspection, thermal) ==
    LET results == [valid |-> TRUE, errors |-> <<>>, warnings |-> <<>>,
                    area_count |-> 0, thermal_count |-> 0]
        check1 == _validate_area_count(inspection, results)
        check2 == IF check1.raised = ""
                  THEN _validate_no_thermal_ids_in_areas(inspection, check1.results)
                  ELSE check1
        check3 == IF check2.raised = ""
                  THEN _validate_thermal_structure(thermal, check2.results)
                  ELSE check2
        check4 == IF check3.raised = ""
                  THEN _validate_no_areas_in_thermal(inspection, thermal, check3.results)
                  ELSE check3
        cleaned_inspection == IF check4.raised = "" THEN CleanInspection(inspection) ELSE inspection
        cleaned_thermal == IF check4.raised = "" THEN CleanThermal(thermal) ELSE thermal
        caught == IF check4.raised = "ValidationError"
                  THEN Caught(check4.results, check4.error)
                  ELSE check4.results
        given == [inspection |-> inspection, thermal |-> thermal]
    IN  IF check4.raised \in {"", "ValidationError"}
        THEN [raised |-> "",
              validation |-> [caught EXCEPT !.area_count = Len(Items(cleaned_inspection)),
                                            !.thermal_count = Len(Items(cleaned_thermal))],
              inspection |-> cleaned_inspection, thermal |-> cleaned_thermal, given |-> given]
        ELSE [raised |-> check4.raised, validation |-> NoReport,
              inspection |-> inspection, thermal |-> thermal, given |-> given]

(***************************************************************************)
(* The inputs of validate_all and its specification.                       *)
(***************************************************************************)
MaxAreaList == 2
MaxReadingList == 2

AreaChoices == {
    [area_name |-> Str(<<"H","a","l","l">>), negative_observations |-> List(<<"damp">>), positive_observations |-> List(<<>>)],
    [area_name |-> Str(<<"I","M","G",".","J","P","G">>), negative_observations |-> List(<<"damp">>), positive_observations |-> List(<<>>)],
    [area_name |-> Str(<<"R","B","0","2","3","8","0","X">>), negative_observations |-> List(<<>>), positive_observations |-> List(<<"dry">>)],
    [area_name |-> Str(<<"S","t","a","i","r","_","w","e","l","l">>), negative_observations |-> List(<<"damp">>), positive_observations |-> List(<<>>)],
    [area_name |-> None, negative_observations |-> None, positive_observations |-> Missing],
    [area_name |-> Missing, negative_observations |-> Str(<<"d","a","m","p">>), positive_observations |-> List(<<>>)],
    [area_name |-> Str(<<>>), negative_observations |-> Missing, positive_observations |-> None],
    [area_name |-> Str(<<"M","A","S","T","E","R","B","E","D","R","O","O","M">>), negative_observations |-> List(<<"damp">>), positive_observations |-> List(<<>>)],
    [area_name |-> Str(<<"C","o","m","m","o","n"," ","p","a","s","s","a","g","e"," ","o","u","t","s","i","d","e"," ","t","h","e"," ","k","i","t","c","h","e","n">>), negative_observations |-> List(<<"damp">>), positive_observations |-> List(<<>>)] }

ReadingChoices == {
    [area |-> Missing, image_id |-> Str(<<"R","B","0","2","3","8","0","X",".","J","P","G">>), hotspot |-> Str(<<"2","8",".","8">>), coldspot |-> Str(<<"2","3",".","4">>),
     temperature_difference |-> Str(<<"N","/","A">>), interpretation |-> Str(<<"c","o","l","d"," ","s","p","o","t">>)],
    [area |-> Str(<<"H","a","l","l">>), image_id |-> Missing, hotspot |-> Str(<<"2","8",".","8">>), coldspot |-> Str(<<"2","3",".","4">>),
     temperature_difference |-> Missing, interpretation |-> Missing],
    [area |-> Str(<<"H","a","l","l">>), image_id |-> Str(<<"A",".","J","P","G">>), hotspot |-> Str(<<"2","9">>), coldspot |-> None,
     temperature_difference |-> Str(<<>>), interpretation |-> None],
    [area |-> Missing, image_id |-> None, hotspot |-> Str(<<"2","9">>), coldspot |-> Str(<<"2","1">>),
     temperature_difference |-> Missing, interpretation |-> Missing],
    [area |-> Missing, image_id |-> Str(<<>>), hotspot |-> None, coldspot |-> Missing,
     temperature_difference |-> Missing, interpretation |-> Missing],
    [area |-> Missing, image_id |-> Str(<<"H","a","l","l">>), hotspot |-> Str(<<"3","0">>), coldspot |-> Str(<<"2","0">>),
     temperature_difference |-> Str(<<"1","0">>), interpretation |-> Str(<<"w","a","r","m">>)],
    [area |-> Missing, image_id |-> Missing, hotspot |-> Str(<<"2","7">>), coldspot |-> Missing,
     temperature_difference |-> Missing, interpretation |-> Missing] }

PlainArea == [area_name |-> Str(<<"H","a","l","l">>), negative_observations |-> List(<<"damp">>), positive_observations |-> List(<<>>)]
UnnamedArea == [area_name |-> None, negative_observations |-> List(<<"damp">>), positive_observations |-> List(<<>>)]
ImageNamedArea == [area_name |-> Str(<<"I","M","G",".","J","P","G">>), negative_observations |-> List(<<"damp">>), positive_observations |-> List(<<>>)]

\* n areas named Hall, with the area other at position at (none when at = 0)
ManyAreas(n, at, other) == [k \in 1..n |-> IF k = at THEN other ELSE PlainArea]

\* area lists around and beyond MAX_AREAS
LongAreaLists == {
    ManyAreas(MAX_AREAS, 0, PlainArea),
    ManyAreas(MAX_AREAS, 2, ImageNamedArea),
    ManyAreas(MAX_AREAS + 1, 0, PlainArea),
    ManyAreas(MAX_AREAS + 1, 3, UnnamedArea),
    ManyAreas(MAX_AREAS + 1, 11, UnnamedArea),
    ManyAreas(MAX_AREAS + 1, 1, ImageNamedArea),
    ManyAreas(MAX_AREAS + 11, 0, PlainArea) }

InspectionChoices ==
    {NoData}
        \cup {[present |-> TRUE, items |-> areas] :
                 areas \in UNION { [1..n -> AreaChoices] : n \in 0..MaxAreaList }}
        \cup {[present |-> TRUE, items |-> areas] : areas \in LongAreaLists}

ThermalChoices ==
    {NoData}
        \cup {[present |-> TRUE, items |-> readings] :
                 readings \in UNION { [1..n -> ReadingChoices] : n \in 0..MaxReadingList }}

InitValidator ==
    /\ pc = "input"
    /\ inspection_data \in InspectionChoices
    /\ thermal_data \in ThermalChoices
    /\ val_result = NoValidation
    /\ ParserIdle /\ VerifierIdle /\ GeneratorIdle /\ GateIdle /\ PipelineIdle

\* a caller runs validate_all(inspection_data, thermal_data); the dicts it passed are
\* the ones the call cleans
Validate ==
    /\ pc = "input"
    /\ val_result' = validate_all(inspection_data, thermal_data)
    /\ inspection_data' = val_result'.inspection
    /\ thermal_data' = val_result'.thermal
    /\ pc' = "validated"
    /\ UNCHANGED <<parserVars, verifierVars, generatorVars, gateVars, pipelineVars>>

NextValidator == Validate

SpecValidator == InitValidator /\ [][NextValidator]_vars

(***************************************************************************)
(* Properties of validator.py.                                             *)
(***************************************************************************)
\* the area carries a name with an image extension or a thermal-device code
HasThermalIdName(area) ==
    /\ area.area_name.tag = "str"
    /\ \E pattern \in thermal_patterns : Contains(lower(area.area_name.val), pattern)

\* the reading has an "area" key and no "image_id" key
AreaKeyedReading(reading) == reading.area.tag # "Missing" /\ reading.image_id.tag = "Missing"

\* validate_all returned a report with valid = false and a non-empty errors list
HardError ==
    /\ val_result.raised = ""
    /\ ~val_result.validation.valid
    /\ val_result.validation.errors # <<>>

\* C9: whenever some area name passed to validate_all contains .jpg, .jpeg, .png, rb0,
\* rb_, ir_ or ir0 (case-insensitively), the call returns a report with valid = false
\* and a non-empty errors list
C9_ThermalIdNameIsHardError ==
    pc = "validated"
    => LET areas == Items(val_result.given.inspection)
       IN  (\E k \in 1..Len(areas) : HasThermalIdName(areas[k])) => HardError

\* C10: whenever some thermal record passed to validate_all has an "area" key and no
\* "image_id" key, the call returns a report with valid = false and a non-empty errors
\* list, whatever the other areas and readings are
C10_AreaKeyedReadingIsHardError ==
    pc = "validated"
    => LET readings == Items(val_result.given.thermal)
       IN  (\E k \in 1..Len(readings) : AreaKeyedReading(readings[k])) => HardError

\* C11: in every report validate_all returns, errors is non-empty exactly when valid
\* is false
C11_ErrorsIffInvalid ==
    (pc = "validated" /\ val_result.raised = "")
    => (val_result.validation.errors # <<>> <=> ~val_result.validation.valid)

\* C11 witness: validate_all returned a report with valid = false and one error
C11_Witness ==
    /\ pc = "validated"
    /\ val_result.raised = ""
    /\ ~val_result.validation.valid
    /\ Len(val_result.validation.errors) = 1

\* C13: validate_all never raises: for every input, also with unset area names and
\* unset reading fields, it returns a validation report together with both collections
C13_ValidateAllNeverRaises == pc = "validated" => val_result.raised = ""

\* every falsy area_name and thermal field is the sentinel, every observation field a list
Normalized(inspection, thermal) ==
    /\ \A k \in 1..Len(Items(inspection)) :
           LET area == Items(inspection)[k]
           IN  /\ ~Falsy(area.area_name)
               /\ area.negative_observations.tag = "list"
               /\ area.positive_observations.tag = "list"
    /\ \A k \in 1..Len(Items(thermal)) :
           LET reading == Items(thermal)[k]
           IN  /\ ~Falsy(reading.image_id) /\ ~Falsy(reading.hotspot) /\ ~Falsy(reading.coldspot)
               /\ ~Falsy(reading.temperature_difference) /\ ~Falsy(reading.interpretation)

\* C14: the collections validate_all returns are normalized regardless of error state:
\* every unset or falsy area_name and thermal field is "Not Available" and every
\* non-list observation field is an empty list, also when the report has valid = false
C14_NormalizedRegardlessOfErrors ==
    (pc = "validated" /\ val_result.raised = "")
    => Normalized(val_result.inspection, val_result.thermal)

\* C15: no check short-circuits except the area-count overflow: when the area count is
\* within the ceiling and the input has both an area name with a thermal-ID pattern and a
\* thermal record with an "area" key but no "image_id" key, the returned errors list holds
\* an error for each of the two breaches
C15_BothBreachesReported ==
    (pc = "validated" /\ val_result.raised = "")
    => LET areas == Items(val_result.given.inspection)
           readings == Items(val_result.given.thermal)
       IN  (/\ Len(areas) <= MAX_AREAS
            /\ \E k \in 1..Len(areas) : HasThermalIdName(areas[k])
            /\ \E k \in 1..Len(readings) : AreaKeyedReading(readings[k]))
           => Len(val_result.validation.errors) >= 2

\* the report has a suspicious-name warning for the area name
WarnedAbout(report, name) ==
    \E w \in 1..Len(report.warnings) :
        /\ report.warnings[w].message = "Suspicious area name (might be ID)"
        /\ report.warnings[w].subject = name

\* C26: for every input within the area-count ceiling and without hard errors, each area
\* name that is longer than 30 characters, or all-uppercase and longer than 10
\* characters, adds a suspicious-name warning to the report
C26_SuspiciousNamesWarned ==
    (pc = "validated" /\ val_result.raised = "" /\ val_result.validation.valid)
    => LET areas == Items(val_result.given.inspection)
       IN  Len(areas) <= MAX_AREAS
           => \A k \in 1..Len(areas) :
                  LET name == areas[k].area_name
                  IN  (/\ name.tag = "str"
                       /\ Len(name.val) > 30 \/ (isupper(name.val) /\ Len(name.val) > 10))
                      => WarnedAbout(val_result.validation, name)

\* C29: validate_all returns a normalized copy and leaves the caller's collections as
\* they were: after the call inspection_data and thermal_data hold the field values that
\* were passed in
C29_CallerInputsUnchanged ==
    (pc = "validated" /\ val_result.raised = "")
    => /\ inspection_data = val_result.given.inspection
       /\ thermal_data = val_result.given.thermal

(***************************************************************************)
(* rate_limiter.py: GeminiRateLimiter.                                     *)
(*                                                                         *)
(* Times are whole seconds; the requests-per-minute values used divide 60, *)
(* so that min_interval = 60 / rpm is a whole number of seconds.           *)
(***************************************************************************)
Time(t) == [set |-> TRUE, at |-> t]

\* __init__(rpm, rpd) on the date today
GeminiRateLimiter(rpm, rpd, today) ==
    [rpm |-> rpm, rpd |-> rpd, min_interval |-> 60 \div rpm, last_call_time |-> NoTime,
     daily_calls |-> 0, last_reset_date |-> today, call_history |-> <<>>]

\* ResetIfNewDay that moves the date and keeps the counter and the history
ResetIfNewDay_KeepsCount(self, today) ==
    IF today > self.last_reset_date THEN [self EXCEPT !.last_reset_date = today] ELSE self

\* "if today > self.last_reset_date": the daily counter and the history start again
ResetIfNewDay(self, today) ==
    IF today > self.last_reset_date
    THEN [self EXCEPT !.daily_calls = 0, !.last_reset_date = today, !.call_history = <<>>]
    ELSE self

\* DailyLimitReached that lets one more call through
DailyLimitReached_Beyond(self) == self.daily_calls > self.rpd

\* "if self.daily_calls >= self.rpd"
DailyLimitReached(self) == self.daily_calls >= self.rpd

\* "if self.last_call_time": None and 0.0 are falsy
HasLastCall(self) == self.last_call_time.set /\ self.last_call_time.at # 0

\* WaitTime that never waits
WaitTime_None(self, now) == 0

\* wait_time of the per-minute check, at time now
WaitTime(self, now) ==
    IF HasLastCall(self) /\ now - self.last_call_time.at < self.min_interval
    THEN self.min_interval - (now - self.last_call_time.at)
    ELSE 0

\* RecordCall that counts the call and keeps no record of it
RecordCall_Unlisted(self, woke, wait_time) ==
    [self EXCEPT !.last_call_time = Time(woke), !.daily_calls = @ + 1]

\* "Record this call": last_call_time, daily_calls += 1 and call_history.append
RecordCall(self, woke, wait_time) ==
    [self EXCEPT !.last_call_time = Time(woke),
                 !.daily_calls = @ + 1,
                 !.call_history = Append(@, [timestamp |-> woke,
                                             call_number |-> self.daily_calls + 1,
                                             waited |-> wait_time])]

\* wait_if_needed at the time and date of now; time.sleep(wait_time) returns overshoot
\* seconds after wait_time has elapsed.  The result holds the limiter and the time
\* after the call, and what the call raised or returned.
wait_if_needed(self, now, overshoot) ==
    LET day == ResetIfNewDay(self, now.date)
        wait_time == WaitTime(day, now.time)
        slept == HasLastCall(day) /\ now.time - day.last_call_time.at < day.min_interval
        woke == IF slept THEN now.time + wait_time + overshoot ELSE now.time
        granted == RecordCall(day, woke, wait_time)
    IN  IF DailyLimitReached(day)
        THEN [limiter |-> day, time |-> now.time,
              status |-> [raised |-> TRUE, call_number |-> day.daily_calls,
                          daily_limit |-> day.rpd, waited_seconds |-> 0,
                          remaining_today |-> 0, slept |-> FALSE]]
        ELSE [limiter |-> granted, time |-> woke,
              status |-> [raised |-> FALSE, call_number |-> granted.daily_calls,
                          daily_limit |-> granted.rpd, waited_seconds |-> wait_time,
                          remaining_today |-> granted.rpd - granted.daily_calls,
                          slept |-> slept]]

get_status(self) ==
    [daily_calls |-> self.daily_calls,
     daily_limit |-> self.rpd,
     remaining_today |-> self.rpd - self.daily_calls,
     last_call |-> self.last_call_time,
     min_interval_seconds |-> self.min_interval]

(***************************************************************************)
(* A gate on its own: time passes, midnight comes, callers ask for slots.  *)
(***************************************************************************)
MaxTime == 12
MaxDate == 2
MaxRpd == 2
MaxOvershoot == 1

RpmChoices == {20, 30}
Delays == {1, 3}

InitGate ==
    /\ pc = "gate"
    /\ clock = [time |-> 1, date |-> 1]
    /\ \E rpm \in RpmChoices, rpd \in 1..MaxRpd : limiter = GeminiRateLimiter(rpm, rpd, clock.date)
    /\ limiter_result = NoStatus
    /\ ParserIdle /\ VerifierIdle /\ GeneratorIdle /\ ValidatorIdle /\ PipelineIdle

\* time passes between two calls
Tick ==
    /\ pc = "gate"
    /\ \E delay \in Delays :
           /\ clock.time + delay <= MaxTime
           /\ clock' = [clock EXCEPT !.time = @ + delay]
    /\ UNCHANGED <<pc, limiter, limiter_result, parserVars, verifierVars, generatorVars,
                   validatorVars, pipelineVars>>

\* the local date advances
Midnight ==
    /\ pc = "gate"
    /\ clock.date < MaxDate
    /\ clock' = [clock EXCEPT !.date = @ + 1]
    /\ UNCHANGED <<pc, limiter, limiter_result, parserVars, verifierVars, generatorVars,
                   validatorVars, pipelineVars>>

\* a caller runs limiter.wait_if_needed()
WaitIfNeeded ==
    /\ pc = "gate"
    /\ \E overshoot \in 0..MaxOvershoot :
           LET call == wait_if_needed(limiter, clock, overshoot)
           IN  /\ call.time <= MaxTime
               /\ limiter' = call.limiter
               /\ clock' = [clock EXCEPT !.time = call.time]
               /\ limiter_result' = call.status
    /\ UNCHANGED <<pc, parserVars, verifierVars, generatorVars, validatorVars, pipelineVars>>

NextGate == Tick \/ Midnight \/ WaitIfNeeded

SpecGate == InitGate /\ [][NextGate]_vars

(***************************************************************************)
(* app.py: the "Generate DDR" button handler, with extraction.py's         *)
(* extract_inspection_findings and extract_thermal_findings.               *)
(***************************************************************************)
SemicolonSpace == <<";", " ">>
HotPrefix == <<"H","o","t",":"," ">>
ColdPrefix == <<","," ","C","o","l","d",":"," ">>
DiffPrefix == <<","," ","D","i","f","f",":"," ">>

\* "value or 'Not Available'" for a string
OrNotAvailable(value) == IF value = <<>> THEN NotAvailable ELSE value

\* extract_inspection_findings: one InspectionFinding per parsed area
InspectionFindings(areas) ==
    [i \in 1..Len(areas) |->
        LET neg_obs == areas[i].negative_observations
            observation == IF neg_obs # <<>>
                           THEN Join(SelectSeq(neg_obs, LAMBDA o : o # <<>>), SemicolonSpace)
                           ELSE NotAvailable
        IN  [area |-> OrNotAvailable(areas[i].area_name),
             observation |-> OrNotAvailable(observation),
             severity_indicator |-> NotAvailable,
             possible_cause |-> NotAvailable]]

\* "reading.get(field) or 'Not Available'"
FieldOrNotAvailable(value) == IF Falsy(value) THEN NotAvailable ELSE value.val

\* extract_thermal_findings: one ThermalFinding per reading of the response
ThermalFindings(readings) ==
    [i \in 1..Len(readings) |->
        [image_id |-> FieldOrNotAvailable(readings[i].image_id),
         temperature_reading |->
             HotPrefix \o FieldOrNotAvailable(readings[i].hotspot)
                 \o ColdPrefix \o FieldOrNotAvailable(readings[i].coldspot)
                 \o DiffPrefix \o FieldOrNotAvailable(readings[i].temperature_difference),
         thermal_interpretation |-> FieldOrNotAvailable(readings[i].interpretation)]]

\* the inspection_data dict the handler builds for validation
InspectionData(findings) ==
    [present |-> TRUE,
     items |-> [i \in 1..Len(findings) |->
                   [area_name |-> Str(findings[i].area),
                    negative_observations |-> List(<<findings[i].observation>>),
                    positive_observations |-> List(<<>>)]]]

\* the thermal_data dict the handler builds for validation
ThermalData(findings) ==
    [present |-> TRUE,
     items |-> [i \in 1..Len(findings) |->
                   [area |-> Missing,
                    image_id |-> Str(findings[i].image_id),
                    hotspot |-> Str(NotApplicable),
                    coldspot |-> Str(NotApplicable),
                    temperature_difference |-> Str(NotApplicable),
                    interpretation |-> Str(findings[i].thermal_interpretation)]]]

\* StopsOnErrors that stops on warnings too
StopsOnErrors_OrWarnings(report) == report.errors # <<>> \/ report.warnings # <<>>

\* "if val['errors']: ... st.stop()"
StopsOnErrors(report) == report.errors # <<>>

Emits_Always(result) == TRUE

\* the statements after generate_ddr run only when it returned: st.markdown(ddr_report)
\* and st.download_button
Emits(result) == result.raised = ""

\* what generate_ddr did, as events of the run
GenerationEvents(result) ==
    <<"generate">>
        \o (IF result.calls # <<>> THEN <<"collaborator">> ELSE <<>>)
        \o (IF result.raised \in {"", "ValueError"} THEN <<"verify">> ELSE <<>>)

(***************************************************************************)
(* One click of the button: the inputs of a run and its stages.            *)
(***************************************************************************)
MaxRunSections == 2
MaxRunReadings == 2
AppRpm == 5
AppRpd == 20

RunBodies == {
    <<"\n","N","e","g","a","t","i","v","e"," ","s","i","d","e"," ","D","e","s","c","r","i","p","t","i","o","n","\n","H","a","l","l"," ","d","a","m","p"," ","P","h","o","t","o"," ","1","\n","N","e","g","a","t","i","v","e"," ","s","i","d","e"," ","p","h","o","t","o","g","r","a","p","h","s","\n">>,
    <<"\n","N","e","g","a","t","i","v","e"," ","s","i","d","e"," ","D","e","s","c","r","i","p","t","i","o","n"," ","K","i","t","c","h","e","n"," ","w","e","t","\n">>,
    <<"\n","P","o","s","i","t","i","v","e"," ","s","i","d","e"," ","D","e","s","c","r","i","p","t","i","o","n","\n","H","a","l","l"," ","f","i","n","e","\n">> }

\* one section whose room label, a flat number, has 31 characters
LongLabelText ==
    ImpactedArea \o <<" ","1","\n","N","e","g","a","t","i","v","e"," ","s","i","d","e"," ","D","e","s","c","r","i","p","t","i","o","n","\n","F","l","a","t"," ","N","o","."," ","0","0","0","0","0","0","0","0","0","0","0","0","0","0","0","0","0","0","0","0","0","0"," ","d","a","m","p","\n">>

\* the text of the inspection PDF: up to MaxRunSections sections, one marker too many, or
\* the section with the long label
RunTexts ==
    { Concat([i \in 1..Len(bs) |-> ImpactedArea \o <<" ">> \o Decimal(i) \o bs[i]]) :
        bs \in UNION { [1..n -> RunBodies] : n \in 0..MaxRunSections } }
        \cup {OrdinalsText([i \in 1..(DefaultMaxAreas + 1) |-> i]), LongLabelText}

RunReadings == {
    [area |-> Missing, image_id |-> Str(<<"A",".","J","P","G">>), hotspot |-> Str(<<"2","8",".","8">>), coldspot |-> Str(<<"2","3",".","4">>),
     temperature_difference |-> Str(<<"5",".","4">>), interpretation |-> Str(<<"c","o","l","d"," ","s","p","o","t">>)],
    [area |-> Missing, image_id |-> Str(<<"A",".","J","P","G">>), hotspot |-> Str(<<"3","0">>), coldspot |-> Str(<<"2","0">>),
     temperature_difference |-> Missing, interpretation |-> Str(<<"w","a","r","m">>)],
    [area |-> Missing, image_id |-> Str(<<"H","a","l","l">>), hotspot |-> Str(<<"2","9">>), coldspot |-> None,
     temperature_difference |-> Str(<<>>), interpretation |-> Str(<<"d","a","m","p">>)],
    [area |-> Missing, image_id |-> Missing, hotspot |-> Str(<<"2","7">>), coldspot |-> Missing,
     temperature_difference |-> Missing, interpretation |-> Missing] }

\* what the collaborator may answer to the thermal extraction prompt: an exception, text
\* that is not JSON, or a JSON object with or without its "thermal_readings" list
ThermalAnswers ==
    {[kind |-> "failed", data |-> NoData], [kind |-> "malformed", data |-> NoData],
     [kind |-> "object", data |-> NoData]}
        \cup {[kind |-> "object", data |-> [present |-> TRUE, items |-> readings]] :
                 readings \in UNION { [1..n -> RunReadings] : n \in 0..MaxRunReadings }}

InitPipeline ==
    /\ pc = "clicked"
    /\ text \in RunTexts
    /\ max_areas = DefaultMaxAreas /\ seg_result = NoResult /\ parse_result = NoParse
    /\ clock = [time |-> 1, date |-> 1]
    /\ limiter = GeminiRateLimiter(AppRpm, AppRpd, clock.date)
    /\ limiter_result = NoStatus
    /\ trace = <<>>
    /\ VerifierIdle /\ GeneratorIdle /\ ValidatorIdle

\* extractor.extract_inspection_findings(inspection_pdf)
ExtractInspection ==
    /\ pc = "clicked"
    /\ parse_result' = parse_inspection_deterministically(text)
    /\ IF parse_result'.raised # ""
       THEN /\ pc' = "failed"
            /\ trace' = trace \o <<"extract", "error">>
            /\ UNCHANGED inspection_findings
       ELSE /\ pc' = "inspected"
            /\ trace' = Append(trace, "extract")
            /\ inspection_findings' = InspectionFindings(parse_result'.areas)
    /\ UNCHANGED <<text, max_areas, seg_result, thermal_findings, gen_result, verifierVars,
                   validatorVars, gateVars>>

\* extractor.extract_thermal_findings(thermal_pdf): _call_gemini takes a slot, calls the
\* collaborator, and the answer is parsed
ExtractThermal ==
    /\ pc = "inspected"
    /\ LET call == wait_if_needed(limiter, clock, 0)
       IN  /\ limiter' = call.limiter
           /\ clock' = [clock EXCEPT !.time = call.time]
           /\ limiter_result' = call.status
           /\ IF call.status.raised
              THEN /\ pc' = "failed"
                   /\ trace' = trace \o <<"extract", "error">>
                   /\ UNCHANGED thermal_findings
              ELSE \E answer \in ThermalAnswers :
                      IF answer.kind # "object"
                      THEN /\ pc' = "failed"
                           /\ trace' = trace \o <<"extract", "slot", "collaborator", "error">>
                           /\ UNCHANGED thermal_findings
                      ELSE /\ pc' = "extracted"
                           /\ trace' = trace \o <<"extract", "slot", "collaborator">>
                           /\ thermal_findings' = ThermalFindings(Items(answer.data))
    /\ UNCHANGED <<inspection_findings, gen_result, parserVars, verifierVars, validatorVars>>

\* validator.validate_all(inspection_data, thermal_data) on the dicts built from the
\* findings, then the display of the report
ValidateStage ==
    /\ pc = "extracted"
    /\ val_result' = validate_all(InspectionData(inspection_findings), ThermalData(thermal_findings))
    /\ inspection_data' = val_result'.inspection
    /\ thermal_data' = val_result'.thermal
    /\ IF val_result'.raised # ""
       THEN /\ pc' = "failed"
            /\ trace' = trace \o <<"validate", "error">>
       ELSE IF StopsOnErrors(val_result'.validation)
       THEN /\ pc' = "stopped"
            /\ trace' = trace \o <<"validate", "stop">>
       ELSE /\ pc' = "checked"
            /\ trace' = Append(trace, "validate")
    /\ UNCHANGED <<parserVars, verifierVars, generatorVars, gateVars>>

\* generator.generate_ddr(...), then the report is shown and offered for download
GenerateStage ==
    /\ pc = "checked"
    /\ \E response \in Responses :
           /\ gen_result' = generate_ddr(inspection_findings, thermal_findings, response)
           /\ IF Emits(gen_result')
              THEN /\ pc' = "displayed"
                   /\ ddr_text' = gen_result'.ddr_text
                   /\ trace' = trace \o GenerationEvents(gen_result') \o <<"emit">>
              ELSE /\ pc' = "failed"
                   /\ UNCHANGED ddr_text
                   /\ trace' = trace \o GenerationEvents(gen_result') \o <<"error">>
    /\ inspection_findings' = UnenrichedFindings(inspection_findings)
    /\ UNCHANGED <<thermal_findings, expected_count, verify_result, parserVars, validatorVars,
                   gateVars>>

NextPipeline == ExtractInspection \/ ExtractThermal \/ ValidateStage \/ GenerateStage

SpecPipeline == InitPipeline /\ [][NextPipeline]_vars

(***************************************************************************)
(* Properties of a run of the button handler.                              *)
(***************************************************************************)
StageEvents == <<"extract", "validate", "generate", "verify", "emit">>
IsStage(event) == \E k \in 1..Len(StageEvents) : StageEvents[k] = event
StageRank(event) == CHOOSE k \in 1..Len(StageEvents) : StageEvents[k] = event
Happened(event) == \E i \in 1..Len(trace) : trace[i] = event

\* some stage of the run has failed
RunFailed ==
    \/ pc \in {"failed", "stopped"}
    \/ parse_result.raised # ""
    \/ limiter_result.raised
    \/ val_result.raised # ""
    \/ StopsOnErrors(val_result.validation)
    \/ gen_result.raised # ""

\* C12: in every run the stages execute in the order extract, validate, generate, verify,
\* emit; a failure is the last thing a run does; the generation collaborator is never
\* called after a validation report with errors; and after any failure no report text is
\* displayed or offered for download.
C12_StagesInOrderHaltAtFailure ==
    /\ \A i, j \in 1..Len(trace) :
           i < j /\ IsStage(trace[i]) /\ IsStage(trace[j])
               => StageRank(trace[i]) <= StageRank(trace[j])
    /\ \A i \in 1..Len(trace) : trace[i] \in {"error", "stop"} => i = Len(trace)
    /\ StopsOnErrors(val_result.validation) => ~Happened("generate") /\ gen_result.calls = <<>>
    /\ RunFailed => ~Happened("emit") /\ ddr_text = <<>>

\* a run whose report failed the entity lock: every stage up to verify ran, nothing was shown
C12_Witness ==
    /\ pc = "failed"
    /\ gen_result.raised = "ValueError"
    /\ Happened("verify")
    /\ gen_result.violation.actual # gen_result.violation.expected

\* the generation request carries the counts of the validation report
CountsAsValidated(call) ==
    /\ call.area_count = val_result.validation.area_count
    /\ call.thermal_count = val_result.validation.thermal_count

\* C16: in every run that reaches generation, the area count and the thermal count that
\* generate_ddr embeds in the generation request and verifies against equal the area_count
\* and thermal_count of the validation report, also when the thermal readings contain
\* duplicate image_ids
C16_GenerationUsesValidatedCounts ==
    Happened("generate")
    => /\ \A k \in 1..Len(gen_result.calls) : CountsAsValidated(gen_result.calls[k])
       /\ gen_result.area_count = val_result.validation.area_count
       /\ gen_result.thermal_count = val_result.validation.thermal_count

\* how often the run took a slot from its rate gate, and how often it called the collaborator
Count(event) == Cardinality({i \in 1..Len(trace) : trace[i] = event})

\* C17: every collaborator call of a run, the report-generation call included, is
\* immediately preceded by a granted slot of the run's rate gate, so the collaborator
\* calls never outnumber the slots the gate has granted
C17_EveryCallTakesASlot ==
    /\ \A i \in 1..Len(trace) : trace[i] = "collaborator" => i > 1 /\ trace[i - 1] = "slot"
    /\ Count("collaborator") <= limiter.daily_calls

\* the report has a warning with the message
HasWarning(report, message) ==
    \E w \in 1..Len(report.warnings) : report.warnings[w].message = message

\* C27: warnings never block the pipeline: when the validated input has no breach (also
\* with zero areas, a suspicious area name, or a thermal identifier equal to an area
\* name) the report has valid = true and empty errors, the warnings are recorded, the run
\* is not stopped and goes on to generation, with area count 0 when there are no areas
C27_WarningsDoNotBlock ==
    (Happened("validate") /\ val_result.raised = "")
    => LET report == val_result.validation
           areas == Items(val_result.given.inspection)
           readings == Items(val_result.given.thermal)
       IN  (/\ Len(areas) <= MAX_AREAS
            /\ \A k \in 1..Len(areas) : ~HasThermalIdName(areas[k])
            /\ \A k \in 1..Len(readings) : ~AreaKeyedReading(readings[k]))
           => /\ report.valid /\ report.errors = <<>>
              /\ areas = <<>> => HasWarning(report, "No areas extracted from inspection report")
              /\ \A k \in 1..Len(areas) :
                     Len(areas[k].area_name.val) > 30 => WarnedAbout(report, areas[k].area_name)
              /\ (\E k \in 1..Len(areas), r \in 1..Len(readings) :
                      lower(areas[k].area_name.val) = lower(readings[r].image_id.val))
                 => HasWarning(report, "Thermal image_id matches area name")
              /\ ~Happened("stop") /\ pc \in {"checked", "displayed", "failed"}
              /\ pc # "checked" => Happened("generate")
              /\ (areas = <<>> /\ gen_result.calls # <<>>) => gen_result.calls[1].area_count = 0

\* C27 witness: a run without areas, whose report has a warning, has shown its report
C27_Witness ==
    /\ pc = "displayed"
    /\ inspection_findings = <<>>
    /\ val_result.validation.valid
    /\ HasWarning(val_result.validation, "No areas extracted from inspection report")
    /\ gen_result.calls[1].area_count = 0

(***************************************************************************)
(* Properties of the rate gate.                                            *)
(***************************************************************************)
\* the step is a wait_if_needed call that was granted a slot
Granted == WaitIfNeeded /\ limiter'.daily_calls # limiter.daily_calls

\* the step is a wait_if_needed call made on the day of the last reset with the daily
\* ceiling reached
CallAtCeiling ==
    WaitIfNeeded /\ clock.date <= limiter.last_reset_date /\ limiter.daily_calls = limiter.rpd

\* C18: daily_calls never exceeds rpd, and once daily_calls equals rpd every further call
\* of that day fails at once with the quota error: it does not sleep and it leaves
\* daily_calls, last_call_time and call_history as they were
C18_DailyCeiling ==
    /\ [](limiter.daily_calls <= limiter.rpd)
    /\ [][CallAtCeiling => /\ limiter_result'.raised
                           /\ ~limiter_result'.slept
                           /\ clock' = clock
                           /\ limiter' = limiter]_vars

\* a call has failed at the ceiling, after a slot was granted that day
C18_Witness ==
    /\ pc = "gate"
    /\ limiter_result.raised
    /\ limiter.daily_calls = limiter.rpd
    /\ limiter.call_history # <<>>

\* C19: a wait_if_needed call made after the local date has passed last_reset_date starts
\* the day again before it checks the ceiling: the call is granted with call_number 1,
\* daily_calls is 1 and call_history holds this call only, also when the gate had
\* reached its daily ceiling the day before
C19_NewDayResets ==
    [][(WaitIfNeeded /\ clock.date > limiter.last_reset_date)
           => /\ ~limiter_result'.raised
              /\ limiter_result'.call_number = 1
              /\ limiter'.daily_calls = 1
              /\ Len(limiter'.call_history) = 1
              /\ limiter'.call_history[1].call_number = 1
              /\ limiter'.last_reset_date = clock.date]_vars

\* a gate of one call a day granted the first call of a new day, and had to sleep for it:
\* its one slot of the day before had been used
C19_Witness ==
    /\ pc = "gate"
    /\ limiter.rpd = 1
    /\ limiter.last_reset_date > 1
    /\ limiter.daily_calls = 1
    /\ ~limiter_result.raised /\ limiter_result.call_number = 1
    /\ limiter_result.slept

\* C20: the times recorded for two consecutive granted slots are at least min_interval
\* apart, and the first call on a fresh gate is granted without waiting
C20_MinIntervalBetweenSlots ==
    [][Granted => IF limiter.last_call_time.set
                  THEN limiter'.last_call_time.at - limiter.last_call_time.at
                           >= limiter.min_interval
                  ELSE /\ ~limiter_result'.slept
                       /\ limiter_result'.waited_seconds = 0
                       /\ clock' = clock]_vars

\* a second slot was granted after the caller had slept for the rest of the interval
C20_Witness ==
    /\ pc = "gate"
    /\ Len(limiter.call_history) >= 2
    /\ limiter.call_history[1].waited = 0
    /\ limiter_result.slept /\ limiter_result.waited_seconds > 0
    /\ limiter.call_history[2].timestamp - limiter.call_history[1].timestamp
           >= limiter.min_interval

\* C30: after any sequence of wait_if_needed calls, granted, rejected or crossing a date
\* change, call_history is as long as daily_calls, its call_number values are
\* 1..daily_calls in order, and the remaining_today of get_status is rpd - daily_calls
\* and is never negative
C30_HistoryAgreesWithCount ==
    /\ Len(limiter.call_history) = limiter.daily_calls
    /\ \A i \in 1..Len(limiter.call_history) : limiter.call_history[i].call_number = i
    /\ get_status(limiter).daily_calls = Len(limiter.call_history)
    /\ get_status(limiter).remaining_today = limiter.rpd - Len(limiter.call_history)
    /\ get_status(limiter).remaining_today >= 0

\* C30 witness: after a date change reset the gate, calls were granted up to the ceiling
\* and the latest call was rejected, with nothing remaining
C30_Witness ==
    /\ pc = "gate"
    /\ limiter.last_reset_date > 1
    /\ limiter_result.raised
    /\ Len(limiter.call_history) >= 2
    /\ get_status(limiter).remaining_today = 0

(***************************************************************************)
(* All components together.                                                *)
(***************************************************************************)
Init == InitParser \/ InitVerifier \/ InitGenerator \/ InitValidator \/ InitGate \/ InitPipeline

Next == NextParser \/ NextVerifier \/ NextGenerator \/ NextValidator \/ NextGate \/ NextPipeline

Spec == Init /\ [][Next]_vars

==========================================================================
